---------------------------- MODULE Spec2Model ----------------------------
(***************************************************************************)
(* A model of the training / evaluation core of gnn_tracking:              *)
(*   - TrainingTruthCutConfig (is_trivial, get_masks)                      *)
(*   - TCNTrainer (_apply_mask, evaluate_model, get_batch_losses,          *)
(*     train_step, single_test_step, test_step, step, train,               *)
(*     save_checkpoint, load_checkpoint)                                   *)
(* Arrays indexed by node are functions over 0..n-1 (the source's          *)
(* indices); edge lists and loss lists are sequences.                      *)
(***************************************************************************)
EXTENDS Integers, Sequences, FiniteSets, TLC

VARIABLES
    cfg,              \* trainer.training_truth_cuts
    data,             \* the graph batch handed to the mask engine
    mcall,            \* last call of the mask engine / batch evaluator and its result
    lcall,            \* last call of get_batch_losses and its result
    conf,             \* the trainer's settings (public attributes, constructor arguments)
    epoch,            \* trainer._epoch
    model_state,      \* model.state_dict(), as a version number
    optimizer_state,  \* optimizer.state_dict(), as a version number
    files,            \* the checkpoint files on disk, by path
    pc,               \* position of the trainer's control flow
    loop,             \* locals of train / step / train_step / single_test_step
    hist,             \* observations of the run in progress
    tables,           \* trainer.train_loss and trainer.test_loss, as row indices
    scan              \* a ClusterHyperParamScanner and the search it owns

maskVars == <<cfg, data, mcall>>
lossVars == <<lcall>>
trainVars == <<conf, epoch, model_state, optimizer_state, files, pc, loop, hist,
               tables>>
scanVars == <<scan>>
vars == <<cfg, data, mcall, lcall, conf, epoch, model_state, optimizer_state,
          files, pc, loop, hist, tables, scan>>

None == "None"

(***************************************************************************)
(* Bounds of the model.                                                    *)
(***************************************************************************)
MaskNodes == 2        \* nodes of a batch handed to get_masks
MaskEdges == 1        \* edges of such a batch
EvalNodes == 2        \* nodes of a batch handed to evaluate_model
EvalEdges == 1        \* edges of such a batch
MaxLossFns == 2       \* loss functions of a trainer
MaxEpoch == 2         \* epochs a trainer is run for
NumTrainBatches == 2  \* batches of the training loader
NumValBatches == 1    \* batches of the validation loader
NumTestBatches == 3   \* batches of the validation loader, test_step on its own
MaxHooks == 2         \* hooks registered with add_hook
ApplyNodes == 3       \* nodes of a batch handed directly to _apply_mask
ApplyEdges == 2       \* edges of such a batch

\* pt and pt_thld are counted in units of 1e-8, the absolute tolerance of
\* np.isclose: a threshold of 1 is positive and still "close to 0".
IscloseAtol == 1
PtThlds == {-2, 0, 1, 2}

\* The hits a batch is made of, as (pt, particle_id, reconstructable):
\* noise without and with a pt, particles below and above the thresholds,
\* reconstructable or not.
HitKinds ==
    {<<0, 0, 0>>, <<2, 0, 1>>, <<0, 1, 0>>, <<0, 1, 1>>, <<2, 1, 0>>, <<2, 1, 1>>}

Abs(a) == IF a < 0 THEN -a ELSE a

\* np.isclose(a, b) with the default rtol = 1e-5 for the small values used
\* here: rtol * |b| is below one unit, so only atol counts when b = 0.
isclose(a, b) == IF b = 0 THEN Abs(a) <= IscloseAtol ELSE a = b

(***************************************************************************)
(* Graph batches (torch_geometric Data).                                   *)
(***************************************************************************)
NodeIds(n) == 0 .. (n - 1)

SeqsUpTo(S, n) == UNION {[1 .. k -> S] : k \in 0 .. n}

\* x, sector, y and edge_attr are payload: the mask engine only moves them.
\* x[i] names the hit, edge_attr[e] names the edge.
MkData(n, hits, edges) ==
    [n |-> n,
     x |-> [i \in NodeIds(n) |-> 100 + i],
     pt |-> [i \in NodeIds(n) |-> hits[i][1]],
     particle_id |-> [i \in NodeIds(n) |-> hits[i][2]],
     reconstructable |-> [i \in NodeIds(n) |-> hits[i][3]],
     sector |-> [i \in NodeIds(n) |-> i % 2],
     edge_index |-> edges,
     y |-> [e \in 1 .. Len(edges) |->
              IF /\ hits[edges[e][1]][2] = hits[edges[e][2]][2]
                 /\ hits[edges[e][1]][2] > 0
              THEN 1 ELSE 0],
     edge_attr |-> [e \in 1 .. Len(edges) |-> 200 + e]]

\* d is a batch of at most maxN hits and maxE edges
IsBatch(d, maxN, maxE) ==
    \E n \in 0 .. maxN :
        \E hits \in [NodeIds(n) -> HitKinds] :
            \E k \in 0 .. maxE :
                \E edges \in [1 .. k -> NodeIds(n) \X NodeIds(n)] :
                    d = MkData(n, hits, edges)

TruthCutConfigs ==
    [pt_thld : PtThlds, without_noise : BOOLEAN,
     without_non_reconstructable : BOOLEAN]

\* TrainingTruthCutConfig() as constructed in TCNTrainer.__init__
DefaultTruthCutConfig ==
    [pt_thld |-> 0, without_noise |-> FALSE,
     without_non_reconstructable |-> FALSE]

(***************************************************************************)
(* TrainingTruthCutConfig                                                  *)
(***************************************************************************)
is_trivial(c) ==
    /\ isclose(c.pt_thld, 0)
    /\ ~c.without_noise
    /\ ~c.without_non_reconstructable

\* if self.pt_thld >= 0
pt_cut_enabled_at_zero(c) == c.pt_thld >= 0

\* if self.pt_thld > 0
pt_cut_enabled(c) == c.pt_thld > 0

\* the pt cut without the exemption of noise
pt_cut_no_exempt(m, c, d) ==
    [i \in NodeIds(d.n) |-> m[i] /\ d.pt[i] > c.pt_thld]

\* noise_mask = data.particle_id > 0
\* node_mask[noise_mask] &= data.pt[noise_mask] > self.pt_thld
pt_cut(m, c, d) ==
    [i \in NodeIds(d.n) |->
        IF d.particle_id[i] > 0 THEN m[i] /\ d.pt[i] > c.pt_thld ELSE m[i]]

\* node_mask[edge_index[0]] | node_mask[edge_index[1]]
edge_mask_or(m, d) ==
    [e \in 1 .. Len(d.edge_index) |->
        m[d.edge_index[e][1]] \/ m[d.edge_index[e][2]]]

\* node_mask[data.edge_index[0]] & node_mask[data.edge_index[1]]
edge_mask_of(m, d) ==
    [e \in 1 .. Len(d.edge_index) |->
        m[d.edge_index[e][1]] /\ m[d.edge_index[e][2]]]

get_masks(c, d) ==
    LET m0 == [i \in NodeIds(d.n) |-> TRUE]
        m1 == IF pt_cut_enabled(c) THEN pt_cut(m0, c, d) ELSE m0
        m2 == IF c.without_noise
              THEN [i \in NodeIds(d.n) |-> m1[i] /\ d.particle_id[i] > 0]
              ELSE m1
        m3 == IF c.without_non_reconstructable
              THEN [i \in NodeIds(d.n) |-> m2[i] /\ d.reconstructable[i] > 0]
              ELSE m2
    IN [node_mask |-> m3, edge_mask |-> edge_mask_of(m3, d)]

(***************************************************************************)
(* TCNTrainer._apply_mask                                                  *)
(***************************************************************************)
RECURSIVE arange_masked(_, _, _)
\* np.arange(n)[mask], from index i on: the indices kept, in ascending order
arange_masked(i, n, mask) ==
    IF i >= n THEN <<>>
    ELSE (IF mask[i] THEN <<i>> ELSE <<>>) \o arange_masked(i + 1, n, mask)

RECURSIVE kept_positions(_, _)
\* the positions of seq[mask] in seq, from position e on
kept_positions(e, mask) ==
    IF e > Len(mask) THEN <<>>
    ELSE (IF mask[e] THEN <<e>> ELSE <<>>) \o kept_positions(e + 1, mask)

\* dict(zip(keys, values)): a later pair overwrites an earlier one
dict_zip(keys, values) ==
    [k \in {keys[j] : j \in 1 .. Len(keys)} |->
        values[CHOOSE j \in 1 .. Len(keys) :
                  /\ keys[j] = k
                  /\ \A j2 \in 1 .. Len(keys) : keys[j2] = k => j2 <= j]]

\* dict.get
dict_get(dct, key) == IF key \in DOMAIN dct THEN dct[key] ELSE None

\* np.arange(k), off by one
arange_from_one(k) == [j \in 1 .. k |-> j]

\* np.arange(k)
arange(k) == [j \in 1 .. k |-> j - 1]

\* the conversion taken as accepting whatever the mapping returns
edge_index_mapping_lenient(mapping, endpoints) ==
    IF Len(endpoints) = 0 THEN "ValueError" ELSE "ok"

\* torch.from_numpy(edge_index_mapping(...)) over the endpoints of the kept
\* edges, edge_index_mapping = np.vectorize(dict(...).get)
edge_index_mapping_status(mapping, endpoints) ==
    \* np.vectorize without otypes refuses an input of size 0
    IF Len(endpoints) = 0 THEN "ValueError"
    \* an endpoint missing from the mapping maps to None, which
    \* neither np.vectorize (integer output) nor torch.from_numpy
    \* (object array) accepts
    ELSE IF \E j \in 1 .. Len(endpoints) :
                \/ endpoints[j][1] \notin DOMAIN mapping
                \/ endpoints[j][2] \notin DOMAIN mapping
         THEN "TypeError"
         ELSE "ok"

apply_mask(d, node_mask, edge_mask) ==
    LET \* old_edge_indices = np.arange(len(node_mask))[node_mask]
        old_edge_indices == arange_masked(0, d.n, node_mask)
        \* new_edge_indices = np.arange(node_mask.sum())
        k == Cardinality({i \in NodeIds(d.n) : node_mask[i]})
        new_edge_indices == arange(k)
        mapping == dict_zip(old_edge_indices, new_edge_indices)
        kept == kept_positions(1, edge_mask)
        row0 == [j \in 1 .. Len(kept) |->
                    dict_get(mapping, d.edge_index[kept[j]][1])]
        row1 == [j \in 1 .. Len(kept) |->
                    dict_get(mapping, d.edge_index[kept[j]][2])]
        status ==
            edge_index_mapping_status(mapping,
                [j \in 1 .. Len(kept) |-> d.edge_index[kept[j]]])
    IN IF status # "ok"
       THEN [status |-> status, edge_index_mapping |-> mapping]
       ELSE [status |-> "ok",
             edge_index_mapping |-> mapping,
             data |->
               [n |-> k,
                x |-> [i \in NodeIds(k) |-> d.x[old_edge_indices[i + 1]]],
                pt |-> [i \in NodeIds(k) |-> d.pt[old_edge_indices[i + 1]]],
                particle_id |->
                    [i \in NodeIds(k) |-> d.particle_id[old_edge_indices[i + 1]]],
                reconstructable |->
                    [i \in NodeIds(k) |-> d.reconstructable[old_edge_indices[i + 1]]],
                sector |-> [i \in NodeIds(k) |-> d.sector[old_edge_indices[i + 1]]],
                edge_index |-> [j \in 1 .. Len(kept) |-> <<row0[j], row1[j]>>],
                y |-> [j \in 1 .. Len(kept) |-> d.y[kept[j]]],
                edge_attr |-> [j \in 1 .. Len(kept) |-> d.edge_attr[kept[j]]]]]

(***************************************************************************)
(* TCNTrainer.evaluate_model                                               *)
(***************************************************************************)
\* The keys a model may return: W (edge weights), H (latent coordinates),
\* B (condensation likelihoods), P (track parameters).
ModelOutputs == {{"W", "H", "B"}, {"W", "H", "B", "P"}, {"H", "B"}}

\* the lookup without the except clause: every output taken as computed
get_unguarded(out, key) == "tensor"

\* squeeze_if_defined / get_if_defined
get_if_defined(out, key) == IF key \in out THEN "tensor" ELSE None

evaluate_model(c, d, out, mask_pids_reco, apply_truth_cuts) ==
    LET masks == get_masks(c, d)
        masked == apply_mask(d, masks.node_mask, masks.edge_mask)
        failed == apply_truth_cuts /\ masked.status # "ok"
        \* the batch the model is called on
        input == IF apply_truth_cuts THEN masked.data ELSE d
        pid_field ==
            IF mask_pids_reco
            THEN [i \in NodeIds(input.n) |->
                     input.particle_id[i] * input.reconstructable[i]]
            ELSE input.particle_id
    IN IF failed
       THEN [status |-> masked.status,
             masks_computed |-> TRUE,
             masked_batch_built |-> FALSE]
       ELSE [status |-> "ok",
             masks_computed |-> apply_truth_cuts,
             masked_batch_built |-> apply_truth_cuts,
             model_input |-> input,
             dct |-> [w |-> get_if_defined(out, "W"),
                      x |-> get_if_defined(out, "H"),
                      beta |-> get_if_defined(out, "B"),
                      y |-> input.y,
                      particle_id |-> pid_field,
                      track_params |-> input.pt,
                      pt |-> input.pt,
                      reconstructable |-> input.reconstructable,
                      pred |-> get_if_defined(out, "P"),
                      edge_index |-> input.edge_index,
                      sector |-> input.sector,
                      node_features |-> input.x]]

(***************************************************************************)
(* The mask engine on its own: a configuration and a batch, and the calls  *)
(* of is_trivial and get_masks on them.                                    *)
(***************************************************************************)
NoCall == [called |-> FALSE]

NoMaskCalls ==
    [is_trivial |-> NoCall, get_masks |-> NoCall, apply_mask |-> NoCall,
     evaluate_model |-> NoCall]

\* Checkpoint paths: the names get_checkpoint_name derives from the time of
\* the call, and the file names a caller passes, which are such names too.
UserPaths == {"t1_model.pt"}
Clock == {1, 2}
get_checkpoint_name(now) == IF now = 1 THEN "t1_model.pt" ELSE "t2_model.pt"
get_checkpoint_path(path, now) ==
    IF path = "" THEN get_checkpoint_name(now) ELSE path
AllPaths == UserPaths \cup {get_checkpoint_name(now) : now \in Clock}
\* the files get_checkpoint_path(path) can name, over the times of the call
ResolvedPaths(path) == {get_checkpoint_path(path, now) : now \in Clock}
\* what a caller passes as path: a file name, or "" for the default
PathArgs == AllPaths \cup {""}

NoFile == [exists |-> FALSE]

IdleLoop ==
    [caller |-> "none", epochs_left |-> 0, max_batches |-> 0, batch_idx |-> 0,
     pass |-> 0, exc |-> "none", events |-> <<>>,
     \* where in step() the exception that train handles was raised
     raised_at |-> "none",
     \* the locals of step, test_step and single_test_step: train_losses,
     \* test_results and results; the apply_truth_cuts of the passes that
     \* ended; the loader indices of the batches appended to graphs; the
     \* arguments of the calls of the clustering functions
     train_losses |-> <<>>, test_results |-> <<>>, results |-> <<>>,
     passes |-> <<>>, collected |-> <<>>, handed |-> <<>>]

\* self.train_loss = list(); self.test_loss = list();
\* self._best_cluster_params = {}
NoTables == [train_loss |-> <<>>, test_loss |-> <<>>, best_cluster_params |-> None]

\* no scanner has been constructed
NoScanner == [constructed |-> FALSE]

\* What an observer of the trainer has recorded: the last method called on it
\* and how it ended, the checkpoints written during it, whether a loss was
\* NaN or the user interrupted, whether train ended with epochs not yet
\* started, the number of steps begun since the construction of the trainer
\* and whether one of them raised, whether load_checkpoint set the epoch
\* counter back,
\* the state of the trainer at the last save_checkpoint to each file,
\* and whether save_checkpoint was called with the default path.
NoLast == [op |-> "none", path |-> "", target |-> "", rewound |-> FALSE]
NoHist ==
    [outcome |-> "none", saves |-> 0, nan |-> FALSE, interrupted |-> FALSE,
     abandoned |-> FALSE, steps |-> 0, failed |-> FALSE, last |-> NoLast,
     saved |-> [p \in AllPaths |-> NoFile],
     saved_default |-> FALSE,
     \* the calls of hooks made during the last method: the hook, the list
     \* it was called from, the batch index or pass, and what it found
     hook_calls |-> <<>>]

\* val_batches is the length of the validation loader, clustering_functions
\* the number of clustering functions
DefaultConf ==
    [skip_test_during_training |-> FALSE, lr_scheduler |-> FALSE,
     clustering_functions |-> 0, max_batches_for_clustering |-> 10,
     val_batches |-> 0,
     \* self._train_hooks, self._test_hooks, self._batch_hooks
     train_hooks |-> <<>>, test_hooks |-> <<>>, batch_hooks |-> <<>>]

\* TCNTrainer.__init__
TrainerIdle ==
    /\ conf = DefaultConf
    /\ epoch = 0
    /\ model_state = 0
    /\ optimizer_state = [step |-> 0, lr |-> 0]
    /\ files = [p \in AllPaths |-> NoFile]
    /\ pc = "idle"
    /\ loop = IdleLoop
    /\ hist = NoHist
    /\ tables = NoTables

InitMask ==
    /\ cfg \in TruthCutConfigs
    /\ IsBatch(data, MaskNodes, MaskEdges)
    /\ mcall = NoMaskCalls
    /\ lcall = NoCall
    /\ TrainerIdle
    /\ scan = NoScanner

IsTrivialCall ==
    /\ mcall' = [mcall EXCEPT !.is_trivial =
                    [called |-> TRUE, res |-> is_trivial(cfg)]]
    /\ UNCHANGED <<cfg, data, lossVars, trainVars, scanVars>>

GetMasksCall ==
    /\ mcall' = [mcall EXCEPT !.get_masks =
                    [called |-> TRUE, res |-> get_masks(cfg, data)]]
    /\ UNCHANGED <<cfg, data, lossVars, trainVars, scanVars>>

NextMask == IsTrivialCall \/ GetMasksCall

SpecMask == InitMask /\ [][NextMask]_vars

\* the masks of the last get_masks call
NodeMask == mcall.get_masks.res.node_mask
EdgeMask == mcall.get_masks.res.edge_mask

\* C1: after get_masks, for every truth-cut configuration and every batch,
\* the edge mask of every edge e is the conjunction of the node masks of its
\* two endpoints: edge_mask[e] = node_mask[src(e)] AND node_mask[dst(e)].
C1_EdgeMaskIsAndOfEndpoints ==
    mcall.get_masks.called =>
        /\ DOMAIN EdgeMask = 1 .. Len(data.edge_index)
        /\ DOMAIN NodeMask = NodeIds(data.n)
        /\ \A e \in 1 .. Len(data.edge_index) :
              EdgeMask[e] = (NodeMask[data.edge_index[e][1]]
                             /\ NodeMask[data.edge_index[e][2]])

\* an edge between two different hits, one kept and one removed
C1_Witness ==
    /\ mcall.get_masks.called
    /\ \E e \in 1 .. Len(data.edge_index) :
          /\ NodeMask[data.edge_index[e][1]]
          /\ ~NodeMask[data.edge_index[e][2]]
          /\ ~EdgeMask[e]

\* C2: get_masks keeps a node exactly when (pt_thld <= 0, or the node is
\* noise, or its pt > pt_thld) and (without_noise is off, or particle_id > 0)
\* and (without_non_reconstructable is off, or the node is reconstructable);
\* the pt cut alone never removes a noise node.
C2_NodeKeptExactlyWhen ==
    mcall.get_masks.called =>
        \A i \in NodeIds(data.n) :
            /\ NodeMask[i] <=>
                 /\ \/ cfg.pt_thld <= 0
                    \/ data.particle_id[i] = 0
                    \/ data.pt[i] > cfg.pt_thld
                 /\ (~cfg.without_noise \/ data.particle_id[i] > 0)
                 /\ \/ ~cfg.without_non_reconstructable
                    \/ data.reconstructable[i] > 0
            /\ (/\ data.particle_id[i] = 0
                /\ ~cfg.without_noise
                /\ ~cfg.without_non_reconstructable) => NodeMask[i]

\* a pt cut alone: a noise hit below the threshold is kept, a particle hit
\* at the threshold is removed
C2_Witness ==
    /\ mcall.get_masks.called
    /\ cfg.pt_thld = 2 /\ ~cfg.without_noise /\ ~cfg.without_non_reconstructable
    /\ \E i, j \in NodeIds(data.n) :
          /\ data.particle_id[i] = 0 /\ data.pt[i] = 0 /\ NodeMask[i]
          /\ data.particle_id[j] > 0 /\ data.pt[j] = 2 /\ ~NodeMask[j]

\* C3: with pt_thld = 0, without_noise off and without_non_reconstructable
\* off, the node mask and the edge mask are true at every position of every
\* batch, and is_trivial() returns true.
C3_TrivialConfigAllTrue ==
    cfg = DefaultTruthCutConfig =>
        /\ mcall.get_masks.called =>
              /\ \A i \in NodeIds(data.n) : NodeMask[i]
              /\ \A e \in 1 .. Len(data.edge_index) : EdgeMask[e]
        /\ mcall.is_trivial.called => mcall.is_trivial.res

\* both calls made on the trivial configuration, on a batch with a particle
\* hit of pt 0, a noise hit and an edge
C3_Witness ==
    /\ cfg = DefaultTruthCutConfig
    /\ mcall.get_masks.called /\ mcall.is_trivial.called
    /\ \E i, j \in NodeIds(data.n) :
          /\ data.particle_id[i] > 0 /\ data.pt[i] = 0
          /\ data.particle_id[j] = 0
    /\ Len(data.edge_index) > 0

(***************************************************************************)
(* _apply_mask on its own: a batch and any pair of masks of its shape.     *)
(***************************************************************************)
\* the hits of a batch whose attributes are only moved, never read
PayloadHits ==
    <<<<0, 0, 0>>, <<2, 1, 1>>, <<0, 1, 0>>, <<2, 0, 1>>, <<0, 1, 1>>, <<2, 1, 0>>>>

InitApply ==
    /\ cfg = DefaultTruthCutConfig
    /\ \E n \in 0 .. ApplyNodes :
          \E k \in 0 .. ApplyEdges :
              \E edges \in [1 .. k -> NodeIds(n) \X NodeIds(n)] :
                  /\ data = MkData(n, [i \in NodeIds(n) |-> PayloadHits[(i % 6) + 1]],
                                   edges)
                  \* the arguments of the call to come
                  /\ \E node_mask \in [NodeIds(n) -> BOOLEAN] :
                        \E edge_mask \in [1 .. k -> BOOLEAN] :
                            mcall = [NoMaskCalls EXCEPT !.apply_mask =
                                        [called |-> FALSE,
                                         node_mask |-> node_mask,
                                         edge_mask |-> edge_mask]]
    /\ lcall = NoCall
    /\ TrainerIdle
    /\ scan = NoScanner

ApplyMaskCall ==
    /\ ~mcall.apply_mask.called
    /\ mcall' = [mcall EXCEPT !.apply_mask =
                    [called |-> TRUE,
                     node_mask |-> mcall.apply_mask.node_mask,
                     edge_mask |-> mcall.apply_mask.edge_mask,
                     res |-> apply_mask(data, mcall.apply_mask.node_mask,
                                        mcall.apply_mask.edge_mask)]]
    /\ UNCHANGED <<cfg, data, lossVars, trainVars, scanVars>>

NextApply == ApplyMaskCall

SpecApply == InitApply /\ [][NextApply]_vars

\* the surviving nodes / edges of the last _apply_mask call, from its masks
Survivors == {i \in NodeIds(data.n) : mcall.apply_mask.node_mask[i]}
SurvivingEdges ==
    {e \in 1 .. Len(data.edge_index) : mcall.apply_mask.edge_mask[e]}
\* the number of surviving edges up to and including e: its new position
NewPos(e) == Cardinality({e2 \in SurvivingEdges : e2 <= e})

\* C5: in _apply_mask the k surviving nodes receive the new indices 0..k-1,
\* injectively and in their original order (i < j surviving implies
\* new(i) < new(j)), and in the batch returned every surviving edge has the
\* endpoints new(src), new(dst) of its original endpoints, and node new(i)
\* carries the fields of the original node i.
C5_ReindexInjectiveOrderPreserving ==
    mcall.apply_mask.called =>
        LET new == mcall.apply_mask.res.edge_index_mapping
            res == mcall.apply_mask.res
        IN /\ DOMAIN new = Survivors
           /\ {new[i] : i \in Survivors} = 0 .. (Cardinality(Survivors) - 1)
           /\ \A i, j \in Survivors : i < j => new[i] < new[j]
           /\ res.status = "ok" =>
                 /\ res.data.n = Cardinality(Survivors)
                 /\ Len(res.data.edge_index) = Cardinality(SurvivingEdges)
                 /\ \A e \in SurvivingEdges :
                       res.data.edge_index[NewPos(e)] =
                           <<new[data.edge_index[e][1]], new[data.edge_index[e][2]]>>
                 /\ \A i \in Survivors : res.data.x[new[i]] = data.x[i]

\* hits 0 and 2 survive, hit 1 between them does not, and the edge from 2 to 0
\* survives and is returned as the edge from 1 to 0
C5_Witness ==
    /\ mcall.apply_mask.called
    /\ data.n = 3
    /\ Survivors = {0, 2}
    /\ mcall.apply_mask.res.status = "ok"
    /\ \E e \in SurvivingEdges :
          /\ data.edge_index[e] = <<2, 0>>
          /\ mcall.apply_mask.res.data.edge_index[NewPos(e)] = <<1, 0>>

\* C27: if some edge is kept by the edge mask while one of its endpoints is
\* excluded by the node mask, _apply_mask fails with an error and returns no
\* masked batch; a batch it returns never contains an edge endpoint that does
\* not name a surviving node.
C27_DanglingEdgeFails ==
    mcall.apply_mask.called =>
        LET res == mcall.apply_mask.res
        IN /\ (\E e \in SurvivingEdges :
                  \/ data.edge_index[e][1] \notin Survivors
                  \/ data.edge_index[e][2] \notin Survivors)
                 => (res.status = "TypeError" /\ "data" \notin DOMAIN res)
           /\ res.status = "ok" =>
                 \A j \in 1 .. Len(res.data.edge_index) :
                     /\ res.data.edge_index[j][1] \in NodeIds(res.data.n)
                     /\ res.data.edge_index[j][2] \in NodeIds(res.data.n)

\* two edges kept, the first between two surviving hits, the second with an
\* endpoint that the node mask excludes: the call failed
C27_Witness ==
    /\ mcall.apply_mask.called
    /\ Cardinality(SurvivingEdges) = 2
    /\ Cardinality(Survivors) >= 2
    /\ \E e1, e2 \in SurvivingEdges :
          /\ e1 < e2
          /\ data.edge_index[e1][1] \in Survivors
          /\ data.edge_index[e1][2] \in Survivors
          /\ data.edge_index[e2][1] \in Survivors
          /\ data.edge_index[e2][2] \notin Survivors
    /\ mcall.apply_mask.res.status = "TypeError"

(***************************************************************************)
(* _apply_mask on the masks of get_masks, as evaluate_model chains them:   *)
(* a configuration and a batch.                                            *)
(***************************************************************************)
InitMasked ==
    /\ cfg \in TruthCutConfigs
    /\ \E n \in 0 .. ApplyNodes :
          \E k \in 0 .. ApplyEdges :
              \E edges \in [1 .. k -> NodeIds(n) \X NodeIds(n)] :
                  \E first \in 0 .. 2 :
                      data = MkData(n,
                                 [i \in NodeIds(n) |->
                                     PayloadHits[((i + first) % 6) + 1]],
                                 edges)
    /\ mcall = NoMaskCalls
    /\ lcall = NoCall
    /\ TrainerIdle
    /\ scan = NoScanner

\* data = self._apply_mask(data, node_mask, edge_mask) on the masks that
\* self.training_truth_cuts.get_masks(data) returned
ApplyComputedMasks ==
    /\ mcall.get_masks.called
    /\ ~mcall.apply_mask.called
    /\ mcall' = [mcall EXCEPT !.apply_mask =
                    [called |-> TRUE,
                     node_mask |-> mcall.get_masks.res.node_mask,
                     edge_mask |-> mcall.get_masks.res.edge_mask,
                     res |-> apply_mask(data, mcall.get_masks.res.node_mask,
                                        mcall.get_masks.res.edge_mask)]]
    /\ UNCHANGED <<cfg, data, lossVars, trainVars, scanVars>>

NextMasked == GetMasksCall \/ ApplyComputedMasks

SpecMasked == InitMasked /\ [][NextMasked]_vars

\* C35: for every batch whose masks come from get_masks, the masked batch
\* built by _apply_mask is a valid graph batch: every edge endpoint lies in
\* 0..k-1 where k is the number of surviving nodes, the numbers of edge labels
\* and of edge feature rows equal the number of surviving edges, and the
\* per-node fields (x, pt, particle_id, reconstructable, sector) have exactly
\* k entries, those of the surviving nodes in their original order. Such
\* masks never make _apply_mask fail on an edge without its endpoint.
C35_MaskedBatchIsValid ==
    mcall.apply_mask.called =>
        LET res == mcall.apply_mask.res
            k == Cardinality(Survivors)
            \* the surviving node with i surviving nodes before it
            nth(i) == CHOOSE s \in Survivors :
                          Cardinality({t \in Survivors : t < s}) = i
        IN /\ mcall.apply_mask.node_mask = get_masks(cfg, data).node_mask
           /\ mcall.apply_mask.edge_mask = get_masks(cfg, data).edge_mask
           /\ res.status # "TypeError"
           /\ res.status = "ok" =>
                 /\ res.data.n = k
                 /\ Len(res.data.edge_index) = Cardinality(SurvivingEdges)
                 /\ Len(res.data.y) = Cardinality(SurvivingEdges)
                 /\ Len(res.data.edge_attr) = Cardinality(SurvivingEdges)
                 /\ \A j \in 1 .. Len(res.data.edge_index) :
                       /\ res.data.edge_index[j][1] \in 0 .. (k - 1)
                       /\ res.data.edge_index[j][2] \in 0 .. (k - 1)
                 /\ \A e \in SurvivingEdges :
                       /\ res.data.y[NewPos(e)] = data.y[e]
                       /\ res.data.edge_attr[NewPos(e)] = data.edge_attr[e]
                 /\ DOMAIN res.data.x = 0 .. (k - 1)
                 /\ DOMAIN res.data.pt = 0 .. (k - 1)
                 /\ DOMAIN res.data.particle_id = 0 .. (k - 1)
                 /\ DOMAIN res.data.reconstructable = 0 .. (k - 1)
                 /\ DOMAIN res.data.sector = 0 .. (k - 1)
                 /\ \A i \in 0 .. (k - 1) :
                       /\ res.data.x[i] = data.x[nth(i)]
                       /\ res.data.pt[i] = data.pt[nth(i)]
                       /\ res.data.particle_id[i] = data.particle_id[nth(i)]
                       /\ res.data.reconstructable[i] =
                              data.reconstructable[nth(i)]
                       /\ res.data.sector[i] = data.sector[nth(i)]

\* a pt cut removed the hit between two others; of the two edges the one
\* between the survivors was kept, and the batch was built from hits 0 and 2
C35_Witness ==
    /\ mcall.apply_mask.called
    /\ cfg = [pt_thld |-> 1, without_noise |-> FALSE,
              without_non_reconstructable |-> FALSE]
    /\ data.n = 3
    /\ data.particle_id[1] > 0 /\ data.pt[1] = 0
    /\ Survivors = {0, 2}
    /\ Len(data.edge_index) = 2
    /\ SurvivingEdges = {2}
    /\ data.edge_index[2] = <<2, 0>>
    /\ mcall.apply_mask.res.status = "ok"
    /\ mcall.apply_mask.res.data.edge_index = <<<<1, 0>>>>
    /\ mcall.apply_mask.res.data.x[1] = data.x[2]

(***************************************************************************)
(* evaluate_model on its own: a configuration, a batch, a model.           *)
(***************************************************************************)
\* the hits of the batches evaluate_model is called on
EvalHitKinds == {<<0, 0, 0>>, <<2, 0, 1>>, <<0, 1, 0>>, <<2, 1, 1>>}

InitEval ==
    /\ cfg \in TruthCutConfigs
    /\ \E n \in 0 .. EvalNodes :
          \E hits \in [NodeIds(n) -> EvalHitKinds] :
              \E k \in 0 .. EvalEdges :
                  \E edges \in [1 .. k -> NodeIds(n) \X NodeIds(n)] :
                      data = MkData(n, hits, edges)
    \* the model and the arguments of the call to come
    /\ \E out \in ModelOutputs :
          \E mask_pids_reco \in BOOLEAN :
              \E apply_truth_cuts \in BOOLEAN :
                  mcall = [NoMaskCalls EXCEPT !.evaluate_model =
                              [called |-> FALSE,
                               out |-> out,
                               mask_pids_reco |-> mask_pids_reco,
                               apply_truth_cuts |-> apply_truth_cuts]]
    /\ lcall = NoCall
    /\ TrainerIdle
    /\ scan = NoScanner

EvaluateModelCall ==
    /\ ~mcall.evaluate_model.called
    /\ mcall' = [mcall EXCEPT !.evaluate_model =
                    [called |-> TRUE,
                     out |-> mcall.evaluate_model.out,
                     mask_pids_reco |-> mcall.evaluate_model.mask_pids_reco,
                     apply_truth_cuts |-> mcall.evaluate_model.apply_truth_cuts,
                     res |-> evaluate_model(cfg, data, mcall.evaluate_model.out,
                                mcall.evaluate_model.mask_pids_reco,
                                mcall.evaluate_model.apply_truth_cuts)]]
    /\ UNCHANGED <<cfg, data, lossVars, trainVars, scanVars>>

NextEval == EvaluateModelCall

SpecEval == InitEval /\ [][NextEval]_vars

\* C4: with a trivial truth-cut configuration, an evaluate_model call with
\* apply_truth_cuts that returns has computed no masks and built no masked
\* batch: the model was called on the original batch.
C4_TrivialConfigBypassesMasking ==
    (/\ mcall.evaluate_model.called
     /\ mcall.evaluate_model.apply_truth_cuts
     /\ is_trivial(cfg)
     /\ mcall.evaluate_model.res.status = "ok") =>
        /\ ~mcall.evaluate_model.res.masks_computed
        /\ ~mcall.evaluate_model.res.masked_batch_built
        /\ mcall.evaluate_model.res.model_input = data

\* C25: for every output the model does not compute (W, H, B or P missing
\* from the result of the model) the mapping evaluate_model returns does not
\* contain the corresponding key (w, x, beta, pred) at all, and the truth
\* fields are present in every case.
C25_MissingOutputsHaveNoKey ==
    (mcall.evaluate_model.called /\ mcall.evaluate_model.res.status = "ok") =>
        LET out == mcall.evaluate_model.out
            keys == DOMAIN mcall.evaluate_model.res.dct
        IN /\ "W" \notin out => "w" \notin keys
           /\ "H" \notin out => "x" \notin keys
           /\ "B" \notin out => "beta" \notin keys
           /\ "P" \notin out => "pred" \notin keys
           /\ {"y", "particle_id", "track_params", "pt", "reconstructable",
               "edge_index", "sector", "node_features"} \subseteq keys

\* C25 as the code has it: the mapping evaluate_model returns has the same
\* twelve keys in every case; an output the model does not compute is held
\* under its key with the value None, an output it computes with its tensor.
C25_MissingOutputsAreNone ==
    (mcall.evaluate_model.called /\ mcall.evaluate_model.res.status = "ok") =>
        LET out == mcall.evaluate_model.out
            dct == mcall.evaluate_model.res.dct
        IN /\ DOMAIN dct =
                 {"w", "x", "beta", "pred",
                  "y", "particle_id", "track_params", "pt", "reconstructable",
                  "edge_index", "sector", "node_features"}
           /\ (dct.w = None) <=> ("W" \notin out)
           /\ (dct.x = None) <=> ("H" \notin out)
           /\ (dct.beta = None) <=> ("B" \notin out)
           /\ (dct.pred = None) <=> ("P" \notin out)

\* a model without edge weights and without track parameters was evaluated
C25_Witness ==
    /\ mcall.evaluate_model.called
    /\ mcall.evaluate_model.res.status = "ok"
    /\ mcall.evaluate_model.out = {"H", "B"}
    /\ mcall.evaluate_model.res.dct.w = None
    /\ mcall.evaluate_model.res.dct.pred = None
    /\ mcall.evaluate_model.res.dct.x # None

(***************************************************************************)
(* Floating point values: finite values (here small integers), the two     *)
(* infinities and NaN, with IEEE 754 addition and multiplication.          *)
(***************************************************************************)
Fin(v) == [k |-> "fin", v |-> v]
NaN == [k |-> "nan", v |-> 0]
PInf == [k |-> "inf", v |-> 1]
NInf == [k |-> "inf", v |-> -1]

Sign(v) == IF v > 0 THEN 1 ELSE IF v < 0 THEN -1 ELSE 0

isnan(a) == a.k = "nan"

FMul(a, b) ==
    IF a.k = "nan" \/ b.k = "nan" THEN NaN
    ELSE IF a.k = "inf" \/ b.k = "inf"
         THEN IF a.v = 0 \/ b.v = 0 THEN NaN
              ELSE [k |-> "inf", v |-> Sign(a.v) * Sign(b.v)]
         ELSE Fin(a.v * b.v)

FAdd(a, b) ==
    IF a.k = "nan" \/ b.k = "nan" THEN NaN
    ELSE IF a.k = "inf" /\ b.k = "inf"
         THEN IF a.v = b.v THEN a ELSE NaN
         ELSE IF a.k = "inf" THEN a
              ELSE IF b.k = "inf" THEN b
                   ELSE Fin(a.v + b.v)

(***************************************************************************)
(* TCNTrainer.get_batch_losses                                             *)
(***************************************************************************)
\* The values a loss function returns, and the names of the loss functions
\* in the order of self.loss_functions.
LossValues == {Fin(0), Fin(1), NaN, PInf, NInf}
LossNames == <<"l", "l_k", "m", "n">>

\* What a loss function returns: a scalar, or a mapping of subkeys to scalars.
Scalar(v) == [kind |-> "scalar", v |-> v]
Mapping(items) == [kind |-> "mapping", items |-> items]
LossResults ==
    {Scalar(v) : v \in LossValues}
    \cup {Mapping(<<<<"k", v>>>>) : v \in LossValues}
    \cup {Mapping(<<<<"k", v>>, <<"j", v2>>>>) : v \in {Fin(1), NaN}, v2 \in {Fin(1), NaN}}

\* The weights self._loss_weight_setter[k] may hold: finite, not negative.
WeightValues == {Fin(0), Fin(1), Fin(2)}

\* A dict that keeps insertion order, as a sequence of <<key, value>>.
dict_keys(dct) == {dct[j][1] : j \in 1 .. Len(dct)}
dict_value(dct, key) == dct[CHOOSE j \in 1 .. Len(dct) : dct[j][1] = key][2]
dict_set(dct, key, value) ==
    IF key \in dict_keys(dct)
    THEN [j \in 1 .. Len(dct) |->
            IF dct[j][1] = key THEN <<key, value>> ELSE dct[j]]
    ELSE Append(dct, <<key, value>>)

RECURSIVE add_items(_, _, _)
\* for k, v in loss.items(): individual_losses[f"{key}_{k}"] = v
add_items(acc, key, items) ==
    IF items = <<>> THEN acc
    ELSE add_items(dict_set(acc, key \o "_" \o Head(items)[1], Head(items)[2]),
                   key, Tail(items))

RECURSIVE individual_losses_of(_, _)
\* for key, loss_func in self.loss_functions.items(): ...
individual_losses_of(acc, results) ==
    IF results = <<>> THEN acc
    ELSE LET key == Head(results)[1]
             loss == Head(results)[2]
         IN individual_losses_of(
                IF loss.kind = "mapping"
                THEN add_items(acc, key, loss.items)
                ELSE dict_set(acc, key, loss.v),
                Tail(results))

\* self._loss_weight_setter[k]
loss_weight(weights, key) == weights[key]

RECURSIVE weighted_sum(_, _, _)
\* sum(self._loss_weight_setter[k] * individual_losses[k] for k in ...)
weighted_sum(acc, losses, weights) ==
    IF losses = <<>> THEN acc
    ELSE weighted_sum(
             FAdd(acc, FMul(loss_weight(weights, Head(losses)[1]), Head(losses)[2])),
             Tail(losses), weights)

\* torch.isnan(total)
total_is_nan(total) == isnan(total)

get_batch_losses(results, weights) ==
    LET individual_losses == individual_losses_of(<<>>, results)
        total == weighted_sum(Fin(0), individual_losses, weights)
    IN IF total_is_nan(total)
       THEN [status |-> "RuntimeError"]
       ELSE [status |-> "ok", total |-> total,
             individual_losses |-> individual_losses]

(***************************************************************************)
(* get_batch_losses on its own: what the loss functions return for a       *)
(* batch, and the weights of the realized loss names.                      *)
(***************************************************************************)
InitLoss ==
    /\ cfg = DefaultTruthCutConfig
    /\ data = MkData(0, <<>>, <<>>)
    /\ mcall = NoMaskCalls
    /\ \E n \in 1 .. MaxLossFns :
          \E rs \in [1 .. n -> LossResults] :
              LET results == [i \in 1 .. n |-> <<LossNames[i], rs[i]>>]
                  keys == dict_keys(individual_losses_of(<<>>, results))
              IN \E weights \in [keys -> WeightValues] :
                    lcall = [called |-> FALSE, results |-> results,
                             weights |-> weights]
    /\ TrainerIdle
    /\ scan = NoScanner

GetBatchLossesCall ==
    /\ ~lcall.called
    /\ lcall' = [called |-> TRUE, results |-> lcall.results,
                 weights |-> lcall.weights,
                 res |-> get_batch_losses(lcall.results, lcall.weights)]
    /\ UNCHANGED <<maskVars, trainVars, scanVars>>

NextLoss == GetBatchLossesCall

SpecLoss == InitLoss /\ [][NextLoss]_vars

\* the values the loss functions returned, with the name of the function
ReturnedValues ==
    {<<lcall.results[i][1], lcall.results[i][2].v>> :
        i \in {j \in 1 .. Len(lcall.results) : lcall.results[j][2].kind = "scalar"}}
    \cup UNION {
        {<<lcall.results[i][1], lcall.results[i][2].items[m][2]>> :
            m \in 1 .. Len(lcall.results[i][2].items)} :
        i \in {j \in 1 .. Len(lcall.results) : lcall.results[j][2].kind = "mapping"}}

\* C6: get_batch_losses raises the divergence error exactly when the weighted
\* total over the flattened loss entries is NaN; it raises when a loss
\* function returns NaN, whatever the others return; and when the total is
\* not NaN it returns the total and the per-name losses.
C6_RaisesIffTotalIsNaN ==
    lcall.called =>
        LET entries == individual_losses_of(<<>>, lcall.results)
            total == weighted_sum(Fin(0), entries, lcall.weights)
        IN /\ (lcall.res.status = "RuntimeError") <=> isnan(total)
           /\ (\E r \in ReturnedValues : isnan(r[2]))
                 => lcall.res.status = "RuntimeError"
           /\ ~isnan(total) =>
                 /\ lcall.res.status = "ok"
                 /\ lcall.res.total = total
                 /\ lcall.res.individual_losses = entries

\* The part of C6 that holds: the same statement with "a flattened loss entry
\* is NaN" in the place of "a loss function returns NaN".
C6_HoldsForFlattenedEntries ==
    lcall.called =>
        LET entries == individual_losses_of(<<>>, lcall.results)
            total == weighted_sum(Fin(0), entries, lcall.weights)
        IN /\ (lcall.res.status = "RuntimeError") <=> isnan(total)
           /\ (\E j \in 1 .. Len(entries) : isnan(entries[j][2]))
                 => lcall.res.status = "RuntimeError"
           /\ ~isnan(total) =>
                 /\ lcall.res.status = "ok"
                 /\ lcall.res.total = total
                 /\ lcall.res.individual_losses = entries

\* C24: when the loss function named l returns a mapping with the subkey k,
\* the weight applied to that entry in the total is the one held under the
\* name k_l, subkey first and then the name of the loss function: the entry
\* is kept, and its weight looked up, under that name.
C24_WeightIsHeldUnderSubkeyThenName ==
    (lcall.called /\ lcall.res.status = "ok") =>
        \A i \in 1 .. Len(lcall.results) :
            lcall.results[i][2].kind = "mapping" =>
                \A m \in 1 .. Len(lcall.results[i][2].items) :
                    LET l == lcall.results[i][1]
                        k == lcall.results[i][2].items[m][1]
                    IN /\ (k \o "_" \o l) \in dict_keys(lcall.res.individual_losses)
                       /\ (k \o "_" \o l) \in DOMAIN lcall.weights

(***************************************************************************)
(* TCNTrainer: train, step, train_step, test_step, single_test_step,       *)
(* save_checkpoint, load_checkpoint.                                       *)
(*                                                                         *)
(* pc is the position of the control flow:                                 *)
(*   idle         no method of the trainer is running                      *)
(*   train_loop   train, at the head of its for loop                       *)
(*   step         step was called, nothing of it has run yet               *)
(*   train_batch  train_step, at the head of its loop over the loader      *)
(*   test_batch   single_test_step, at the head of its loop                *)
(*   step_end     step, after the training and the test pass               *)
(*   except       train, in its handler of KeyboardInterrupt               *)
(*   reraise      train, at the raise of its handler                       *)
(*   final_save   train, after its for loop                                *)
(***************************************************************************)
\* The batches the loaders yield: one whose hits all pass a pt cut, and one
\* of a noise hit and a low-pt hit, which loses its edge to a pt cut.
LoaderBatches ==
    {MkData(2, [i \in NodeIds(2) |-> <<3, 1, 1>>], <<<<0, 1>>>>),
     MkData(2, [i \in NodeIds(2) |-> IF i = 0 THEN <<0, 0, 0>> ELSE <<0, 1, 1>>],
            <<<<0, 1>>>>)}
\* what the model returns, and what the loss functions return for a batch
TrainerModelOutput == {"W", "H", "B"}
BatchLossResults ==
    {<<<<"l", Scalar(Fin(1))>>>>, <<<<"l", Scalar(NaN)>>>>}
BatchLossWeights == [l |-> Fin(1)]

\* The trainers: training_truth_cuts, skip_test_during_training, and whether
\* a learning rate scheduler was given.
PtCutConfig ==
    [pt_thld |-> 2, without_noise |-> FALSE, without_non_reconstructable |-> FALSE]
TrainerSetups ==
    {[training_truth_cuts |-> DefaultTruthCutConfig,
      skip_test_during_training |-> FALSE, lr_scheduler |-> TRUE],
     [training_truth_cuts |-> PtCutConfig,
      skip_test_during_training |-> FALSE, lr_scheduler |-> FALSE],
     [training_truth_cuts |-> DefaultTruthCutConfig,
      skip_test_during_training |-> TRUE, lr_scheduler |-> FALSE]}

\* the positions inside step()
StepPcs == {"step", "train_batch", "test_batch", "step_end"}

\* one batch: evaluate_model, then get_batch_losses; the status of the first
\* of the two that raises, or "ok"
batch_status(c, d, results, mask_pids_reco, apply_truth_cuts) ==
    LET ev == evaluate_model(c, d, TrainerModelOutput, mask_pids_reco,
                             apply_truth_cuts)
    IN IF ev.status # "ok" THEN ev.status
       ELSE get_batch_losses(results, BatchLossWeights).status

\* except Exception: a handler that catches every error
caught_any(exc) == TRUE

\* except KeyboardInterrupt
caught_by_train(exc) == exc = "KeyboardInterrupt"

\* self._epoch += 2
next_epoch_twice(e) == e + 2

\* self._epoch += 1
next_epoch(e) == e + 1

\* a checkpoint that records the last completed epoch
checkpoint_previous_epoch(e, m, o) ==
    [exists |-> TRUE, epoch |-> IF e > 0 THEN e - 1 ELSE 0,
     model_state_dict |-> m, optimizer_state_dict |-> o]

\* the dictionary torch.save writes in save_checkpoint
checkpoint(e, m, o) ==
    [exists |-> TRUE, epoch |-> e, model_state_dict |-> m,
     optimizer_state_dict |-> o]

\* the state of the trainer as an observer sees it
observed_state ==
    [exists |-> TRUE, epoch |-> epoch, model_state_dict |-> model_state,
     optimizer_state_dict |-> optimizer_state]

\* the record of a call that begins
begun(op) ==
    [hist EXCEPT !.outcome = "running", !.saves = 0, !.nan = FALSE,
                 !.interrupted = FALSE, !.abandoned = FALSE,
                 !.last = [NoLast EXCEPT !.op = op],
                 !.hook_calls = <<>>]

\* save_checkpoint(path), with get_checkpoint_path(path) naming the file
\* target: the effect on the files, and what the observer records on top of h
save_checkpoint(path, target, h) ==
    /\ files' = [files EXCEPT ![target] =
                    checkpoint(epoch, model_state, optimizer_state)]
    /\ hist' = [h EXCEPT
                  !.saves = @ + 1,
                  !.saved = [@ EXCEPT ![target] = observed_state],
                  !.saved_default = @ \/ path = ""]

\* an exception raised inside step(): caught by the handler of train, or
\* propagated to the caller of the method
raise(exc, h) ==
    IF loop.caller = "train" /\ caught_by_train(exc)
    THEN /\ pc' = "except"
         /\ loop' = [loop EXCEPT !.exc = exc, !.raised_at = pc]
         /\ hist' = [h EXCEPT !.failed = TRUE]
    ELSE /\ pc' = "idle"
         /\ loop' = IdleLoop
         /\ hist' = [h EXCEPT !.outcome = exc, !.failed = TRUE,
                              !.abandoned = loop.epochs_left > 0]

\* losses = {k: np.nanmean(v) for k, v in batch_losses.items()}: the names
\* under which the batches of a pass recorded a loss, each with the value of
\* that pass; no name when the loader gave no batch. The classification
\* statistics of the edge weights get their names outside this file.
losses_of(batches, value) ==
    IF batches = 0 THEN <<>>
    ELSE <<<<"total", value>>, <<"l", value>>, <<"l_weighted", value>>>>

\* an assignment in the place of the update
dict_assign(dct, other) == other

RECURSIVE dict_update(_, _)
\* dct.update(other)
dict_update(dct, other) ==
    IF other = <<>> THEN dct
    ELSE dict_update(dict_set(dct, Head(other)[1], Head(other)[2]), Tail(other))

\* add_key_suffix(dct, suffix)
add_key_suffix(dct, suffix) ==
    [j \in 1 .. Len(dct) |-> <<dct[j][1] \o suffix, dct[j][2]>>]

\* results = {**{f"{k}_train": v for k, v in train_losses.items()},
\*            **test_results}
step_results(train_losses, test_results) ==
    dict_update(add_key_suffix(train_losses, "_train"), test_results)

\* what a clustering function returns: None, or a result with metrics and
\* best parameters
ClusterResults(c) ==
    IF c.clustering_functions = 0 THEN {[returned |-> FALSE]}
    ELSE {[returned |-> FALSE],
          [returned |-> TRUE, metrics |-> <<<<"c", "cluster">>>>,
           best_params |-> "p"]}

\* for k, f in self.clustering_functions.items(): cluster_result = f(...);
\* losses.update(cluster_result.metrics); losses.update({best_k_param: val})
with_cluster_result(losses, cluster_result) ==
    IF cluster_result.returned
    THEN dict_update(dict_update(losses, cluster_result.metrics),
                     <<<<"best_f_p", cluster_result.best_params>>>>)
    ELSE losses

\* a cutoff that stops before the batch max_batches_for_clustering
collects_below(c, batch_idx) ==
    c.clustering_functions > 0 /\ batch_idx < c.max_batches_for_clustering

\* if self.clustering_functions
\*    and _batch_idx <= self.max_batches_for_clustering
collects(c, batch_idx) ==
    c.clustering_functions > 0 /\ batch_idx <= c.max_batches_for_clustering

\* the hooks of a list called last to first
hook_calls_reversed(hooks, at, idx, seen) ==
    [j \in 1 .. Len(hooks) |->
        [hook |-> hooks[Len(hooks) + 1 - j], at |-> at, idx |-> idx, seen |-> seen]]

\* for hook in hooks: hook(self, ...): the calls, in the order of the list
hook_calls_of(hooks, at, idx, seen) ==
    [j \in 1 .. Len(hooks) |->
        [hook |-> hooks[j], at |-> at, idx |-> idx, seen |-> seen]]

\* a scheduler stepped twice
lr_scheduler_step_twice(o) == [o EXCEPT !.lr = @ + 2]

\* self._lr_scheduler.step()
lr_scheduler_step(o) == [o EXCEPT !.lr = @ + 1]

\* train(epochs, max_batches); max_batches = 0 stands for None
TrainCall ==
    /\ pc = "idle"
    /\ \E epochs \in 0 .. MaxEpoch :
          \E max_batches \in {0, 1} :
              /\ hist.steps + epochs <= MaxEpoch
              /\ loop' = [IdleLoop EXCEPT !.caller = "train",
                                          !.epochs_left = epochs,
                                          !.max_batches = max_batches]
    /\ pc' = "train_loop"
    /\ hist' = begun("train")
    /\ UNCHANGED <<maskVars, lossVars, scanVars, tables, conf, epoch, model_state,
                   optimizer_state, files>>

\* for _ in range(1, epochs + 1): try: self.step(max_batches=max_batches)
TrainLoop ==
    /\ pc = "train_loop"
    /\ IF loop.epochs_left > 0
       THEN /\ pc' = "step"
            /\ loop' = [loop EXCEPT !.epochs_left = @ - 1]
       ELSE /\ pc' = "final_save"
            /\ loop' = loop
    /\ UNCHANGED <<maskVars, lossVars, scanVars, tables, conf, epoch, model_state,
                   optimizer_state, files, hist>>

\* step(max_batches) called on its own
StepCall ==
    /\ pc = "idle"
    /\ hist.steps < MaxEpoch
    /\ \E max_batches \in {0, 1} :
          loop' = [IdleLoop EXCEPT !.caller = "step", !.max_batches = max_batches]
    /\ pc' = "step"
    /\ hist' = begun("step")
    /\ UNCHANGED <<maskVars, lossVars, scanVars, tables, conf, epoch, model_state,
                   optimizer_state, files>>

\* self._epoch += 1, then train_step begins
StepBegin ==
    /\ pc = "step"
    /\ epoch' = next_epoch(epoch)
    /\ pc' = "train_batch"
    /\ loop' = [loop EXCEPT !.batch_idx = 0, !.events = <<>>,
                            !.train_losses = <<>>, !.test_results = <<>>,
                            !.results = <<>>, !.passes = <<>>,
                            !.collected = <<>>, !.handed = <<>>]
    /\ hist' = [hist EXCEPT !.steps = @ + 1]
    /\ UNCHANGED <<maskVars, lossVars, scanVars, tables, conf, model_state,
                   optimizer_state, files>>

\* the loop of train_step goes on to the batch batch_idx
TrainLoaderHasNext ==
    /\ loop.batch_idx < NumTrainBatches
    /\ ~(loop.max_batches # 0 /\ loop.batch_idx > loop.max_batches)

\* a batch whose backward pass and optimizer step come before the NaN test
TrainBatchUpdatesFirst ==
    /\ pc = "train_batch"
    /\ TrainLoaderHasNext
    /\ \E d \in LoaderBatches :
          \E results \in BatchLossResults :
              LET status == batch_status(cfg, d, results, TRUE, TRUE)
                  evaluated ==
                      evaluate_model(cfg, d, TrainerModelOutput, TRUE, TRUE).status
                          = "ok"
                  h == [hist EXCEPT
                          !.nan = @ \/ status = "RuntimeError",
                          !.hook_calls =
                              IF evaluated
                              THEN @ \o hook_calls_of(conf.batch_hooks, "batch",
                                                     loop.batch_idx,
                                                     optimizer_state.step)
                              ELSE @]
              IN IF status # "ok"
                 THEN /\ raise(status, h)
                      /\ model_state' = model_state + 1
                      /\ optimizer_state' = [optimizer_state EXCEPT !.step = @ + 1]
                 ELSE /\ model_state' = model_state + 1
                      /\ optimizer_state' = [optimizer_state EXCEPT !.step = @ + 1]
                      /\ loop' = [loop EXCEPT !.batch_idx = @ + 1,
                                              !.events = Append(@, "train_batch")]
                      /\ pc' = pc
                      /\ hist' = h
    /\ UNCHANGED <<maskVars, lossVars, scanVars, tables, conf, epoch, files>>

\* one batch of train_step: evaluate with truth cuts, the batch hooks,
\* losses, optimizer step
TrainBatch ==
    /\ pc = "train_batch"
    /\ TrainLoaderHasNext
    /\ \E d \in LoaderBatches :
          \E results \in BatchLossResults :
              LET status == batch_status(cfg, d, results, TRUE, TRUE)
                  evaluated ==
                      evaluate_model(cfg, d, TrainerModelOutput, TRUE, TRUE).status
                          = "ok"
                  h == [hist EXCEPT
                          !.nan = @ \/ status = "RuntimeError",
                          !.hook_calls =
                              IF evaluated
                              THEN @ \o hook_calls_of(conf.batch_hooks, "batch",
                                                     loop.batch_idx,
                                                     optimizer_state.step)
                              ELSE @]
              IN IF status # "ok"
                 THEN /\ raise(status, h)
                      /\ UNCHANGED <<model_state, optimizer_state>>
                 ELSE /\ model_state' = model_state + 1
                      /\ optimizer_state' = [optimizer_state EXCEPT !.step = @ + 1]
                      /\ loop' = [loop EXCEPT !.batch_idx = @ + 1,
                                              !.events = Append(@, "train_batch")]
                      /\ pc' = pc
                      /\ hist' = h
    /\ UNCHANGED <<maskVars, lossVars, scanVars, tables, conf, epoch, files>>

\* an end of train_step that calls the train hooks before it updates the
\* loss weights
train_step_end_hooks_first == <<"train_hooks", "loss_weights", "train_loss">>

\* what train_step does after its loop, in the order of the code:
\* self._loss_weight_setter.step(losses), self.train_loss.append(...), the
\* train hooks
train_step_end == <<"loss_weights", "train_loss", "train_hooks">>

\* what single_test_step does after its loop, in the order of the code:
\* self.test_loss.append(...), the test hooks
single_test_step_end == <<"test_loss", "test_hooks">>

\* the rows a table gains when the events of a step contain appends to it
RECURSIVE appended(_, _, _)
appended(table, events, name) ==
    IF events = <<>> THEN table
    ELSE appended(IF Head(events) = name THEN Append(table, epoch) ELSE table,
                  Tail(events), name)

\* the end of train_step, and step going on to test_step or past it
TrainStepEnd ==
    /\ pc = "train_batch"
    /\ ~TrainLoaderHasNext
    /\ tables' = [tables EXCEPT
                    !.train_loss = appended(@, train_step_end, "train_loss")]
    /\ LET train_losses == losses_of(loop.batch_idx, "train")
       IN IF conf.skip_test_during_training
          THEN /\ pc' = "step_end"
               /\ loop' = [loop EXCEPT !.batch_idx = 0,
                                       !.events = @ \o train_step_end,
                                       !.train_losses = train_losses,
                                       !.results = step_results(train_losses, <<>>)]
          ELSE /\ pc' = "test_batch"
               /\ loop' = [loop EXCEPT !.batch_idx = 0, !.pass = 1,
                                       !.events = @ \o train_step_end,
                                       !.train_losses = train_losses]
    /\ hist' = [hist EXCEPT
                  !.hook_calls = @ \o hook_calls_of(conf.train_hooks, "train", epoch,
                                                    Len(tables'.train_loss))]
    /\ UNCHANGED <<maskVars, lossVars, scanVars, conf, epoch, model_state,
                   optimizer_state, files>>

\* one batch of single_test_step; the second pass applies the truth cuts
TestBatch ==
    /\ pc = "test_batch"
    /\ loop.batch_idx < conf.val_batches
    /\ \E d \in LoaderBatches :
          \E results \in BatchLossResults :
              LET status == batch_status(cfg, d, results, FALSE, loop.pass = 2)
                  h == [hist EXCEPT !.nan = @ \/ status = "RuntimeError"]
              IN IF status # "ok"
                 THEN raise(status, h)
                 ELSE /\ loop' = [loop EXCEPT
                                    !.batch_idx = @ + 1,
                                    !.events = Append(@, "test_batch"),
                                    !.collected =
                                        IF collects(conf, loop.batch_idx)
                                        THEN Append(@, loop.batch_idx) ELSE @]
                      /\ pc' = pc
                      /\ hist' = h
    /\ UNCHANGED <<maskVars, lossVars, scanVars, tables, conf, epoch, model_state,
                   optimizer_state, files>>

\* the end of single_test_step: the clustering functions, the row of the
\* table and the hooks; then test_step going on to its second pass when the
\* truth cuts are not trivial, and merging what the second pass returns
TestPassEnd ==
    /\ pc = "test_batch"
    /\ loop.batch_idx >= conf.val_batches
    /\ \E cluster_result \in ClusterResults(conf) :
          LET apply_truth_cuts == loop.pass = 2
              losses == with_cluster_result(
                            losses_of(loop.batch_idx,
                                      IF apply_truth_cuts THEN "cut" ELSE "uncut"),
                            cluster_result)
              test_results ==
                  IF loop.pass = 1 THEN losses
                  ELSE dict_update(loop.test_results, add_key_suffix(losses, "tc_"))
              ended ==
                  [loop EXCEPT
                     !.batch_idx = 0,
                     !.events = @ \o single_test_step_end,
                     !.passes = Append(@, apply_truth_cuts),
                     !.test_results = test_results,
                     !.collected = <<>>,
                     !.handed =
                         IF conf.clustering_functions > 0
                         THEN Append(@, [graphs |-> loop.collected,
                                         start_params |-> tables.best_cluster_params])
                         ELSE @]
          IN /\ tables' = [tables EXCEPT
                             !.test_loss = appended(@, single_test_step_end,
                                                    "test_loss"),
                             !.best_cluster_params =
                                 IF cluster_result.returned
                                 THEN cluster_result.best_params ELSE @]
             /\ IF loop.pass = 1 /\ ~is_trivial(cfg)
                THEN /\ pc' = pc
                     /\ loop' = [ended EXCEPT !.pass = 2]
                ELSE IF loop.caller = "test_step"
                     THEN /\ pc' = "test_end"
                          /\ loop' = [ended EXCEPT !.pass = 0]
                     ELSE /\ pc' = "step_end"
                          /\ loop' = [ended EXCEPT
                                        !.pass = 0,
                                        !.results = step_results(loop.train_losses,
                                                                 test_results)]
    /\ hist' = [hist EXCEPT
                  !.hook_calls = @ \o hook_calls_of(conf.test_hooks, "test", loop.pass,
                                                    Len(tables'.test_loss))]
    /\ UNCHANGED <<maskVars, lossVars, scanVars, conf, epoch, model_state,
                   optimizer_state, files>>

\* the end of step: the learning rate scheduler, then the return
StepEnd ==
    /\ pc = "step_end"
    /\ optimizer_state' =
          IF conf.lr_scheduler
          THEN lr_scheduler_step(optimizer_state)
          ELSE optimizer_state
    /\ IF loop.caller = "train"
       THEN /\ pc' = "train_loop"
            /\ loop' = loop
            /\ hist' = hist
       ELSE /\ pc' = "idle"
            /\ loop' = IdleLoop
            /\ hist' = [hist EXCEPT !.outcome = "returned"]
    /\ UNCHANGED <<maskVars, lossVars, scanVars, tables, conf, epoch, model_state, files>>

\* the user interrupts while step() runs
Interrupt ==
    /\ pc \in StepPcs
    /\ raise("KeyboardInterrupt", [hist EXCEPT !.interrupted = TRUE])
    /\ UNCHANGED <<maskVars, lossVars, scanVars, tables, conf, epoch, model_state,
                   optimizer_state, files>>

\* a handler that only logs
TrainExceptNoSave ==
    /\ pc = "except"
    /\ pc' = "reraise"
    /\ UNCHANGED <<maskVars, lossVars, scanVars, tables, conf, epoch, model_state,
                   optimizer_state, files, loop, hist>>

\* except KeyboardInterrupt: self.save_checkpoint()
TrainExcept ==
    /\ pc = "except"
    /\ \E target \in ResolvedPaths("") : save_checkpoint("", target, hist)
    /\ pc' = "reraise"
    /\ UNCHANGED <<maskVars, lossVars, scanVars, tables, conf, epoch, model_state,
                   optimizer_state, loop>>

\* raise, in the handler
TrainReraise ==
    /\ pc = "reraise"
    /\ pc' = "idle"
    /\ loop' = IdleLoop
    /\ hist' = [hist EXCEPT !.outcome = loop.exc,
                            !.abandoned = loop.epochs_left > 0]
    /\ UNCHANGED <<maskVars, lossVars, scanVars, tables, conf, epoch, model_state,
                   optimizer_state, files>>

\* self.save_checkpoint() after the loop of train
TrainFinalSave ==
    /\ pc = "final_save"
    /\ \E target \in ResolvedPaths("") :
          save_checkpoint("", target, [hist EXCEPT !.outcome = "returned"])
    /\ pc' = "idle"
    /\ loop' = IdleLoop
    /\ UNCHANGED <<maskVars, lossVars, scanVars, tables, conf, epoch, model_state,
                   optimizer_state>>

\* save_checkpoint(path) called on its own
SaveCheckpointCall ==
    /\ pc = "idle"
    /\ \E path \in UserPaths \cup {""} :
          \E target \in ResolvedPaths(path) :
              save_checkpoint(path, target,
                  [begun("save_checkpoint") EXCEPT !.outcome = "returned"])
    /\ UNCHANGED <<maskVars, lossVars, scanVars, tables, conf, epoch, model_state,
                   optimizer_state, pc, loop>>

\* load_checkpoint(path), with get_checkpoint_path(path) naming the file target
LoadCheckpointCall ==
    /\ pc = "idle"
    /\ \E path \in PathArgs :
          \E target \in ResolvedPaths(path) :
              LET h == [begun("load_checkpoint") EXCEPT
                           !.last = [op |-> "load_checkpoint", path |-> path,
                                     target |-> target,
                                     rewound |-> /\ files[target].exists
                                                 /\ files[target].epoch < epoch]]
              IN IF files[target].exists
                 THEN /\ model_state' = files[target].model_state_dict
                      /\ optimizer_state' = files[target].optimizer_state_dict
                      /\ epoch' = files[target].epoch
                      /\ hist' = [h EXCEPT !.outcome = "returned"]
                 ELSE /\ hist' = [h EXCEPT !.outcome = "FileNotFoundError"]
                      /\ UNCHANGED <<model_state, optimizer_state, epoch>>
    /\ UNCHANGED <<maskVars, lossVars, scanVars, tables, conf, files, pc, loop>>

Init ==
    /\ \E setup \in TrainerSetups :
          /\ cfg = setup.training_truth_cuts
          /\ conf = [DefaultConf EXCEPT
                        !.skip_test_during_training = setup.skip_test_during_training,
                        !.lr_scheduler = setup.lr_scheduler,
                        !.val_batches = NumValBatches]
    /\ data = MkData(0, <<>>, <<>>)
    /\ mcall = NoMaskCalls
    /\ lcall = NoCall
    /\ epoch = 0
    /\ model_state = 0
    /\ optimizer_state = [step |-> 0, lr |-> 0]
    /\ files = [p \in AllPaths |-> NoFile]
    /\ pc = "idle"
    /\ loop = IdleLoop
    /\ hist = NoHist
    /\ tables = NoTables
    /\ scan = NoScanner

Next ==
    \/ TrainCall
    \/ TrainLoop
    \/ StepCall
    \/ StepBegin
    \/ TrainBatch
    \/ TrainStepEnd
    \/ TestBatch
    \/ TestPassEnd
    \/ StepEnd
    \/ Interrupt
    \/ TrainExcept
    \/ TrainReraise
    \/ TrainFinalSave
    \/ SaveCheckpointCall
    \/ LoadCheckpointCall

Spec == Init /\ [][Next]_vars

\* C29: within one step() the epoch counter is incremented first, then the
\* whole training pass runs, then the test pass if and only if
\* skip_test_during_training is false (otherwise the result of the step holds
\* only the training losses), then the learning rate scheduler is stepped
\* when one is configured: once per step(), and nowhere else in the step.
C29_StepOrder ==
    [][LET TrainingPart(events, n) ==
               /\ n >= 1
               /\ \A i \in 1 .. n : events[i] = "train_batch"
               /\ SubSeq(events, n + 1, n + 3) =
                      <<"loss_weights", "train_loss", "train_hooks">>
           n_train == Cardinality({i \in 1 .. Len(loop'.events) :
                                      loop'.events[i] = "train_batch"})
           train_names == {"total_train", "l_train", "l_weighted_train"}
       IN /\ (pc = "step" /\ pc' = "train_batch") =>
                (epoch' = epoch + 1 /\ loop'.events = <<>>)
          /\ pc \in {"train_batch", "test_batch", "step_end"} => epoch' = epoch
          /\ pc' \in {"test_batch", "step_end"} =>
                pc \in {"train_batch", "test_batch", "step_end"}
          /\ (pc = "train_batch" /\ pc' = "test_batch") =>
                /\ ~conf.skip_test_during_training
                /\ TrainingPart(loop'.events, n_train)
                /\ Len(loop'.events) = n_train + 3
          /\ (pc = "train_batch" /\ pc' = "step_end") =>
                /\ conf.skip_test_during_training
                /\ TrainingPart(loop'.events, n_train)
                /\ Len(loop'.events) = n_train + 3
                /\ dict_keys(loop'.results) = train_names
          /\ (pc = "test_batch" /\ pc' = "step_end") =>
                /\ ~conf.skip_test_during_training
                /\ TrainingPart(loop'.events, n_train)
                /\ Len(loop'.events) > n_train + 3
                /\ \A i \in (n_train + 4) .. Len(loop'.events) :
                      loop'.events[i] \in {"test_batch", "test_loss", "test_hooks"}
                /\ loop'.events[Len(loop'.events)] = "test_hooks"
                /\ train_names \subseteq dict_keys(loop'.results)
                /\ "total" \in dict_keys(loop'.results)
          /\ (pc \in StepPcs /\ optimizer_state'.lr # optimizer_state.lr) =>
                (pc = "step_end" /\ conf.lr_scheduler)
          /\ (pc = "step_end" /\ pc' \in {"idle", "train_loop"}
                /\ ~hist'.interrupted) =>
                optimizer_state'.lr =
                    optimizer_state.lr + (IF conf.lr_scheduler THEN 1 ELSE 0)
      ]_vars

\* a step() of a trainer with a scheduler has returned after its training
\* pass and its test pass: the scheduler has been stepped once
C29_Witness ==
    /\ pc = "idle"
    /\ conf.lr_scheduler /\ ~conf.skip_test_during_training
    /\ hist.last.op = "step" /\ hist.outcome = "returned"
    /\ hist.steps = 1
    /\ epoch = 1
    /\ Len(tables.train_loss) = 1 /\ Len(tables.test_loss) = 1
    /\ optimizer_state.lr = 1

(***************************************************************************)
(* test_step on its own: a trainer with or without a clustering function,  *)
(* a validation loader of any length up to NumTestBatches.                 *)
(***************************************************************************)
InitTest ==
    /\ cfg \in {DefaultTruthCutConfig, PtCutConfig}
    /\ \E clustering_functions \in {0, 1} :
          \E max_batches_for_clustering \in {0, 1, 10} :
              \E val_batches \in 0 .. NumTestBatches :
                  conf = [DefaultConf EXCEPT
                            !.clustering_functions = clustering_functions,
                            !.max_batches_for_clustering = max_batches_for_clustering,
                            !.val_batches = val_batches]
    /\ data = MkData(0, <<>>, <<>>)
    /\ mcall = NoMaskCalls
    /\ lcall = NoCall
    /\ epoch = 0
    /\ model_state = 0
    /\ optimizer_state = [step |-> 0, lr |-> 0]
    /\ files = [p \in AllPaths |-> NoFile]
    /\ pc = "idle"
    /\ loop = IdleLoop
    /\ hist = NoHist
    /\ tables = NoTables
    /\ scan = NoScanner

\* test_step() called on its own: the first single_test_step begins
TestStepCall ==
    /\ pc = "idle"
    /\ Len(tables.test_loss) < 2 * MaxEpoch
    /\ loop' = [IdleLoop EXCEPT !.caller = "test_step", !.pass = 1]
    /\ pc' = "test_batch"
    /\ hist' = begun("test_step")
    /\ UNCHANGED <<maskVars, lossVars, scanVars, tables, conf, epoch, model_state,
                   optimizer_state, files>>

\* return test_results
TestStepReturn ==
    /\ pc = "test_end"
    /\ pc' = "idle"
    /\ loop' = IdleLoop
    /\ hist' = [hist EXCEPT !.outcome = "returned"]
    /\ UNCHANGED <<maskVars, lossVars, scanVars, tables, conf, epoch, model_state,
                   optimizer_state, files>>

NextTest ==
    \/ TestStepCall
    \/ TestBatch
    \/ TestPassEnd
    \/ TestStepReturn

SpecTest == InitTest /\ [][NextTest]_vars

(***************************************************************************)
(* add_hook, and step() with the hooks registered.                         *)
(***************************************************************************)
InitHooks ==
    /\ cfg \in {DefaultTruthCutConfig, PtCutConfig}
    /\ conf = [DefaultConf EXCEPT !.val_batches = NumValBatches]
    /\ data = MkData(0, <<>>, <<>>)
    /\ mcall = NoMaskCalls
    /\ lcall = NoCall
    /\ epoch = 0
    /\ model_state = 0
    /\ optimizer_state = [step |-> 0, lr |-> 0]
    /\ files = [p \in AllPaths |-> NoFile]
    /\ pc = "idle"
    /\ loop = IdleLoop
    /\ hist = NoHist
    /\ tables = NoTables
    /\ scan = NoScanner

\* add_hook(hook, called_at)
AddHookCall ==
    /\ pc = "idle"
    /\ Len(conf.train_hooks) + Len(conf.test_hooks) + Len(conf.batch_hooks)
          < MaxHooks
    /\ \E hook \in {"f", "g"} :
          \E called_at \in {"train", "test", "batch", "epoch"} :
              LET h == [begun("add_hook") EXCEPT
                           !.last = [op |-> "add_hook", hook |-> hook,
                                     called_at |-> called_at]]
              IN IF called_at = "train"
                 THEN /\ conf' = [conf EXCEPT !.train_hooks = Append(@, hook)]
                      /\ hist' = [h EXCEPT !.outcome = "returned"]
                 ELSE IF called_at = "test"
                 THEN /\ conf' = [conf EXCEPT !.test_hooks = Append(@, hook)]
                      /\ hist' = [h EXCEPT !.outcome = "returned"]
                 ELSE IF called_at = "batch"
                 THEN /\ conf' = [conf EXCEPT !.batch_hooks = Append(@, hook)]
                      /\ hist' = [h EXCEPT !.outcome = "returned"]
                 ELSE /\ conf' = conf
                      /\ hist' = [h EXCEPT !.outcome = "ValueError"]
    /\ UNCHANGED <<maskVars, lossVars, scanVars, tables, epoch, model_state,
                   optimizer_state, files, pc, loop>>

NextHooks ==
    \/ AddHookCall
    \/ StepCall
    \/ StepBegin
    \/ TrainBatch
    \/ TrainStepEnd
    \/ TestBatch
    \/ TestPassEnd
    \/ StepEnd

SpecHooks == InitHooks /\ [][NextHooks]_vars

\* C34: hooks are kept in three lists (train, test, batch), to which
\* add_hook appends, and are called in the order of their registration:
\* the batch hooks once for every training batch, after its evaluation and
\* before its losses are aggregated (also when the aggregation then raises,
\* and before the optimizer update of the batch), the train hooks once at the
\* end of the training pass, the test hooks once at the end of every
\* evaluation pass, and nowhere else; add_hook with a called_at other than
\* train, test or batch raises ValueError and leaves the three lists as
\* they are.
C34_HooksInRegistrationOrder ==
    [][LET Called(hooks, at, idx, seen) ==
               [j \in 1 .. Len(hooks) |->
                   [hook |-> hooks[j], at |-> at, idx |-> idx, seen |-> seen]]
           lists(c) == <<c.train_hooks, c.test_hooks, c.batch_hooks>>
           AddHook == pc = "idle" /\ pc' = "idle" /\ hist'.last.op = "add_hook"
           BatchEvaluated ==
               /\ pc = "train_batch"
               /\ \/ pc' = "train_batch" /\ loop'.batch_idx = loop.batch_idx + 1
                  \/ ~hist.nan /\ hist'.nan
           TrainPassEnds == pc = "train_batch" /\ pc' \in {"test_batch", "step_end"}
           TestPassEnds ==
               /\ pc = "test_batch"
               /\ pc' = "step_end" \/ (loop.pass = 1 /\ loop'.pass = 2)
       IN /\ AddHook =>
                LET called_at == hist'.last.called_at
                    hook == hist'.last.hook
                IN /\ called_at = "train" =>
                         lists(conf') = <<Append(conf.train_hooks, hook),
                                          conf.test_hooks, conf.batch_hooks>>
                   /\ called_at = "test" =>
                         lists(conf') = <<conf.train_hooks,
                                          Append(conf.test_hooks, hook),
                                          conf.batch_hooks>>
                   /\ called_at = "batch" =>
                         lists(conf') = <<conf.train_hooks, conf.test_hooks,
                                          Append(conf.batch_hooks, hook)>>
                   /\ called_at \in {"train", "test", "batch"} =>
                         hist'.outcome = "returned"
                   /\ called_at \notin {"train", "test", "batch"} =>
                         (lists(conf') = lists(conf) /\ hist'.outcome = "ValueError")
          /\ lists(conf') # lists(conf) => AddHook
          /\ BatchEvaluated =>
                hist'.hook_calls =
                    hist.hook_calls \o Called(conf.batch_hooks, "batch",
                                              loop.batch_idx, optimizer_state.step)
          /\ TrainPassEnds =>
                hist'.hook_calls =
                    hist.hook_calls \o Called(conf.train_hooks, "train", epoch,
                                              Len(tables.train_loss) + 1)
          /\ TestPassEnds =>
                hist'.hook_calls =
                    hist.hook_calls \o Called(conf.test_hooks, "test", loop.pass,
                                              Len(tables.test_loss) + 1)
          /\ (pc # "idle" /\ hist'.hook_calls # hist.hook_calls) =>
                (BatchEvaluated \/ TrainPassEnds \/ TestPassEnds)
      ]_vars

\* the batch hooks g and f, registered in this order, have been called for
\* the two training batches of a step: g, f, g, f
C34_Witness ==
    /\ pc = "step_end"
    /\ conf.batch_hooks = <<"g", "f">>
    /\ Len(hist.hook_calls) = 4
    /\ hist.hook_calls[1].hook = "g" /\ hist.hook_calls[2].hook = "f"
    /\ hist.hook_calls[3].hook = "g" /\ hist.hook_calls[3].idx = 1
    /\ hist.hook_calls[3].seen = 1

NaNFound == loop.caller = "train" /\ ~hist.nan /\ hist'.nan

\* C7: when the total loss of a batch is NaN during train(), the error leaves
\* train() at once: the step that finds the NaN ends the call with
\* RuntimeError, changes neither the epoch nor the model nor the optimizer
\* nor any checkpoint file, and train() has written no checkpoint at all,
\* neither in its handler nor after its loop.
C7_NaNAbortsTrainWithoutCheckpoint ==
    [][/\ NaNFound =>
            /\ pc' = "idle"
            /\ hist'.outcome = "RuntimeError"
            /\ hist'.saves = 0
            /\ files' = files
            /\ epoch' = epoch
            /\ model_state' = model_state
            /\ optimizer_state' = optimizer_state
       /\ (hist'.last.op = "train" /\ hist'.nan) =>
            /\ pc' = "idle"
            /\ hist'.outcome = "RuntimeError"
            /\ hist'.saves = 0]_vars

\* train() ended on a NaN loss after a batch had been processed, with epochs
\* still to run, and no checkpoint file exists
C7_Witness ==
    /\ pc = "idle"
    /\ hist.last.op = "train"
    /\ hist.nan
    /\ hist.outcome = "RuntimeError"
    /\ hist.abandoned
    /\ model_state >= 1
    /\ \A p \in AllPaths : ~files[p].exists

\* load_checkpoint has returned or raised, and nothing was called since
Loaded == pc = "idle" /\ hist.last.op = "load_checkpoint"

\* save_checkpoint was called with this path argument
SavedUnder(path) ==
    IF path = "" THEN hist.saved_default ELSE hist.saved[path].exists

\* C8: for every file name p, load_checkpoint(p) after a save_checkpoint that
\* wrote p, and after any further training, returns and sets the epoch, the
\* model parameters and the optimizer state to the values they had at the
\* last save_checkpoint that wrote p.
C8_RoundTripOfNamedFile ==
    (Loaded /\ hist.last.path # "" /\ hist.saved[hist.last.path].exists) =>
        /\ hist.outcome = "returned"
        /\ observed_state = hist.saved[hist.last.path]

\* C8 as stated, for every path argument p, the default "" included:
\* load_checkpoint(p) after save_checkpoint(p) returns and restores the values
\* saved.
C8_RoundTripOfAnyPath ==
    (Loaded /\ SavedUnder(hist.last.path)) =>
        /\ hist.outcome = "returned"
        /\ observed_state = hist.saved[hist.last.target]

\* a checkpoint was loaded by name after the trainer had trained on past the
\* epoch it was saved at
C8_Witness ==
    /\ Loaded
    /\ hist.last.path = "t1_model.pt"
    /\ hist.outcome = "returned"
    /\ hist.last.rewound
    /\ epoch = 1
    /\ model_state >= 1

\* C9: when the user interrupts inside a step during train(), train() starts
\* no further batch or epoch, writes exactly one checkpoint in its handler,
\* and only then ends with the same KeyboardInterrupt.
C9_InterruptSavesOnceThenReraises ==
    [][/\ (loop.caller = "train" /\ hist.interrupted) =>
            /\ pc' \in {"except", "reraise", "idle"}
            /\ epoch' = epoch
            /\ model_state' = model_state
       /\ pc' = "except" => (hist'.interrupted /\ hist'.saves = 0)
       /\ pc' = "reraise" =>
            /\ hist'.saves = 1
            /\ \E p \in AllPaths : files'[p] = checkpoint(epoch', model_state',
                                                         optimizer_state')
       /\ (pc' = "idle" /\ hist'.last.op = "train" /\ hist'.interrupted) =>
            /\ pc = "reraise"
            /\ hist'.outcome = "KeyboardInterrupt"
            /\ hist'.saves = 1
            /\ files' = files]_vars

\* train() was interrupted in the middle of its first epoch, with epochs
\* still to run: it ended with KeyboardInterrupt after one checkpoint of the
\* state at the interruption
C9_Witness ==
    /\ pc = "idle"
    /\ hist.last.op = "train"
    /\ hist.interrupted
    /\ hist.outcome = "KeyboardInterrupt"
    /\ hist.saves = 1
    /\ hist.abandoned
    /\ epoch = 1
    /\ model_state = 1
    /\ \E p \in AllPaths : files[p] = observed_state

\* C10: the epoch counter is 0 after construction; step() adds exactly 1 to
\* it before its first training batch, and train_step begins nowhere else;
\* a step of the trainer that changes the counter is either that increment
\* or a load_checkpoint.
C10_EpochCounter ==
    /\ epoch = 0
    /\ [][/\ (pc = "step" /\ pc' = "train_batch") =>
               (epoch' = epoch + 1 /\ loop'.batch_idx = 0)
          /\ (pc' = "train_batch" /\ pc # "train_batch") => pc = "step"
          /\ epoch' # epoch =>
               \/ pc = "step" /\ pc' = "train_batch" /\ epoch' = epoch + 1
               \/ pc = "idle" /\ hist'.last.op = "load_checkpoint"]_vars

\* the second step of a train() call has raised the counter from 1 to 2 and
\* is about to process its first training batch
C10_Witness ==
    /\ pc = "train_batch"
    /\ loop.caller = "train"
    /\ loop.batch_idx = 0
    /\ epoch = 2
    /\ model_state = NumTrainBatches

\* the positions of an event in the events of the step in progress
Positions(name) == {i \in 1 .. Len(loop.events) : loop.events[i] = name}

\* C11: in every epoch run through step(), the loss weights are updated
\* exactly once, after every training batch of the epoch and before the train
\* hooks and every batch and table row of the test passes; while the training
\* batches are still running they have not been updated.
C11_WeightUpdateOncePerEpoch ==
    /\ pc = "train_batch" => Positions("loss_weights") = {}
    /\ pc \in {"test_batch", "step_end"} =>
          /\ Cardinality(Positions("loss_weights")) = 1
          /\ \A w \in Positions("loss_weights") :
                /\ \A b \in Positions("train_batch") : b < w
                /\ \A a \in Positions("train_hooks") \cup Positions("test_batch")
                             \cup Positions("test_loss") \cup Positions("test_hooks") :
                      w < a

\* a step with two passes of the test loader has ended after two training
\* batches: weights updated once, in between
C11_Witness ==
    /\ pc = "step_end"
    /\ Cardinality(Positions("train_batch")) = NumTrainBatches
    /\ Cardinality(Positions("test_loss")) = 2
    /\ Cardinality(Positions("loss_weights")) = 1

\* the rows of a table that holds one row for each of the epochs 1..n
OneRowPerEpoch(n) == [i \in 1 .. n |-> i]

\* n calls of step() have returned and nothing else has moved the epoch
\* counter: no step failed, no checkpoint of another epoch was loaded
AfterSteps(n) ==
    /\ pc \in {"idle", "train_loop", "final_save"}
    /\ hist.steps = n
    /\ ~hist.failed
    /\ epoch = n

\* C12: with testing enabled and any truth cuts, after n calls of step() the
\* train and the test loss table each hold exactly n rows, indexed by the
\* epochs 1..n, none repeated.
C12_OneRowPerEpochInEachTable ==
    \A n \in 0 .. MaxEpoch :
        (AfterSteps(n) /\ ~conf.skip_test_during_training) =>
            /\ tables.train_loss = OneRowPerEpoch(n)
            /\ tables.test_loss = OneRowPerEpoch(n)

\* C31: train_step(max_batches = n) with n >= 1 processes at most n batches
\* of the training loader in the epoch: at most n batches are evaluated and
\* used for an optimizer update.
C31_AtMostMaxBatches ==
    (pc \in StepPcs /\ loop.max_batches >= 1) =>
        Cardinality(Positions("train_batch")) <= loop.max_batches

\* C36: when the aggregated loss of a training batch is NaN, the divergence
\* error is raised before the backward pass and the optimizer update of that
\* batch: the model parameters and the optimizer state stay those the
\* previous batch left, no row is appended to the train loss table and the
\* loss weights are not updated for that epoch.
C36_NaNBatchLeavesNoTrace ==
    [][(pc = "train_batch" /\ ~hist.nan /\ hist'.nan) =>
          /\ model_state' = model_state
          /\ optimizer_state' = optimizer_state
          /\ tables' = tables
          /\ Positions("loss_weights") = {} /\ Positions("train_loss") = {}
          /\ pc' = "idle" /\ hist'.outcome = "RuntimeError"
          /\ epoch' = epoch
      ]_vars

\* the second batch of the first epoch gave a NaN loss: one optimizer update
\* was made, by the first batch, and the train loss table has no row
C36_Witness ==
    /\ pc = "idle"
    /\ hist.nan /\ hist.outcome = "RuntimeError"
    /\ hist.steps = 1 /\ epoch = 1
    /\ model_state = 1
    /\ optimizer_state.step = 1
    /\ tables.train_loss = <<>>

\* C38: the checkpoint train() saves when a step is interrupted after its
\* increment of the counter records the number e of the interrupted epoch,
\* not that of the last completed one; load_checkpoint of a file sets the
\* counter to the number the file records, and from there the next step()
\* raises it by one before its first batch: it runs epoch e + 1.
C38_InterruptedEpochIsRecorded ==
    [][/\ (pc = "except" /\ pc' = "reraise" /\ loop.raised_at # "step") =>
             /\ loop.raised_at \in {"train_batch", "test_batch", "step_end"}
             /\ \E target \in ResolvedPaths("") :
                   /\ files'[target].exists
                   /\ files'[target].epoch = epoch
                   /\ \A p \in AllPaths \ {target} : files'[p] = files[p]
             /\ epoch' = epoch
             /\ epoch >= 1
       /\ (pc' = "except" /\ pc \in {"train_batch", "test_batch", "step_end"}) =>
             (loop'.raised_at = pc /\ epoch' = epoch)
       /\ (pc = "idle" /\ hist'.last.op = "load_checkpoint"
             /\ hist'.outcome = "returned") =>
             (epoch' = files[hist'.last.target].epoch /\ files' = files)
       /\ (pc' = "step" /\ pc \in {"idle", "train_loop"}) => epoch' = epoch
       /\ (pc = "step" /\ pc' = "train_batch") => epoch' = epoch + 1
      ]_vars

\* train() was interrupted among the training batches of epoch 1, of which
\* the train loss table has no row yet, and its handler has saved a
\* checkpoint that records epoch 1
C38_Witness ==
    /\ pc = "reraise"
    /\ loop.raised_at = "train_batch"
    /\ epoch = 1
    /\ tables.train_loss = <<>>
    /\ model_state = 1
    /\ \E p \in ResolvedPaths("") : files[p].exists /\ files[p].epoch = 1

(***************************************************************************)
(* ClusterHyperParamScanner (postprocessing/clusterscanner.py).            *)
(* A name (of a metric, of a key of the metrics of a result) is the        *)
(* sequence of its characters, so that "." in name and name.split(".")     *)
(* can be computed.  An array is its shape and its entries; the list of    *)
(* graphs is a sequence, the graph with index i_graph is its entry         *)
(* i_graph + 1.  The search (optuna.Study) is what the scanner uses of     *)
(* it: the trials it has run, the best completed one, the trials waiting   *)
(* to be run and the flag that stops optimize().                           *)
(***************************************************************************)
MaxScans == 2         \* calls of scan on one scanner
MaxTrials == 2        \* the largest budget n_trials of a scan

\* "." in name
contains_dot(name) == \E i \in 1 .. Len(name) : name[i] = "."

\* f"{name}.{k}"
dotted(name, k) == name \o <<".">> \o k

\* np.ones(shape, dtype=int): an array of the given shape
np_ones(shape) ==
    LET RECURSIVE prod(_)
        prod(dims) == IF dims = <<>> THEN 1 ELSE Head(dims) * prod(Tail(dims))
    IN [shape |-> shape, flat |-> [i \in 1 .. prod(shape) |-> 1]]
np_unique(a) == {a.flat[i] : i \in 1 .. Len(a.flat)}
\* the length of every entry of a list
lens(list) == [i \in 1 .. Len(list) |-> Len(list[i])]

\* The constructor arguments the model is run on.  A graph is the list of
\* its hits (here their numbers), truth and sectors hold one entry per hit;
\* the sectors are None or a list.  A metric is its name in the metrics dict
\* and what the function returns, a float or a mapping with the given
\* subkeys.  nan_on are the graphs on whose truth the metric functions
\* return NaN whatever the labels.
ScannerArgs ==
    LET NoSectors == [is_None |-> TRUE, list |-> <<>>]
        Sectors(list) == [is_None |-> FALSE, list |-> list]
        FloatMetric(name) ==
            [name |-> name, is_mapping |-> FALSE, subkeys |-> {}]
        MappingMetric(name, subkeys) ==
            [name |-> name, is_mapping |-> TRUE, subkeys |-> subkeys]
        VMeasure == FloatMetric(<<"v">>)
        Counts == MappingMetric(<<"d">>, {<<"a">>, <<"b">>})
        Dotted == FloatMetric(<<"x", ".", "y">>)
        ThreeGraphs ==
            [graphs |-> <<<<1, 2>>, <<3, 4>>, <<5, 6>>>>,
             truth |-> <<<<1, 1>>, <<1, 2>>, <<2, 2>>>>,
             sectors |-> Sectors(<<<<1, 2>>, <<-1, 1>>, <<1, 1>>>>),
             metrics |-> {VMeasure, Counts},
             guide |-> <<"d", ".", "a">>,
             guide_proxy |-> <<"v">>,
             nan_on |-> {}]
        TwoGraphs ==
            [graphs |-> <<<<1, 2>>, <<3, 4>>>>,
             truth |-> <<<<1, 1>>, <<1, 2>>>>,
             sectors |-> Sectors(<<<<1, 2>>, <<2, -1>>>>),
             metrics |-> {VMeasure},
             guide |-> <<"v">>,
             guide_proxy |-> <<>>,
             nan_on |-> {}]
        \* the sectors left out
        DefaultSectors == [TwoGraphs EXCEPT !.sectors = NoSectors]
        \* the sectors left out, graphs of one hit with truth label 1
        DefaultSectorsOneHit ==
            [DefaultSectors EXCEPT !.graphs = <<<<1>>, <<2>>>>,
                                   !.truth = <<<<1>>, <<1>>>>]
        \* a graph all of whose hits are background
        BackgroundOnly ==
            [TwoGraphs EXCEPT !.sectors = Sectors(<<<<-1, -1>>, <<1, 1>>>>)]
        \* arguments the constructor refuses
        NoGraphs == [TwoGraphs EXCEPT !.graphs = <<>>, !.truth = <<>>,
                                      !.sectors = NoSectors]
        FewerTruths == [TwoGraphs EXCEPT !.truth = <<<<1, 1>>>>,
                                         !.sectors = NoSectors]
        ShorterTruth == [TwoGraphs EXCEPT !.truth = <<<<1, 1>>, <<1>>>>,
                                          !.sectors = NoSectors]
        DottedMetric == [TwoGraphs EXCEPT !.metrics = {VMeasure, Dotted}]
        ShorterSectors ==
            [TwoGraphs EXCEPT !.sectors = Sectors(<<<<1, 2>>, <<1>>>>)]
    IN {ThreeGraphs, TwoGraphs, DefaultSectors, DefaultSectorsOneHit,
        BackgroundOnly, NoGraphs, FewerTruths, ShorterTruth, DottedMetric,
        ShorterSectors}

\* ClusterHyperParamScanner.__init__: the sectors it stores
init_sectors(args) ==
    IF args.sectors.is_None
    THEN [i \in 1 .. Len(args.truth) |-> np_ones(args.truth[i])]
    ELSE [i \in 1 .. Len(args.sectors.list) |->
             [shape |-> <<Len(args.sectors.list[i])>>,
              flat |-> args.sectors.list[i]]]

\* ClusterHyperParamScanner.__init__ without the check of the metric names
init_error_dots_allowed(args) ==
    IF lens(args.graphs) # lens(args.truth) THEN "AssertionError"
    ELSE IF ~(Len(args.graphs) > 0) THEN "AssertionError"
    ELSE IF ~args.sectors.is_None /\ lens(args.sectors.list) # lens(args.truth)
    THEN "AssertionError"
    ELSE "none"

\* ClusterHyperParamScanner.__init__: the error it raises, "none" when it
\* returns
init_error(args) ==
    IF lens(args.graphs) # lens(args.truth) THEN "AssertionError"
    ELSE IF ~(Len(args.graphs) > 0) THEN "AssertionError"
    ELSE IF \E m \in args.metrics : contains_dot(m.name) THEN "ValueError"
    ELSE IF ~args.sectors.is_None /\ lens(args.sectors.list) # lens(args.truth)
    THEN "AssertionError"
    ELSE "none"

\* self._graph_to_sector, a dict, as the set of its items
cached(cache, i_graph) == {item \in cache : item[1] = i_graph}

\* _get_sector_to_study with the lookup in self._graph_to_sector left out:
\* a sector is drawn and stored at every call
get_sector_to_study_uncached(cache, sectors, i_graph) ==
    LET available == np_unique(sectors[i_graph + 1]) \ {-1}
    IN IF available = {}
       THEN {[exc |-> "ValueError", sector |-> 0, cache |-> cache]}
       ELSE {[exc |-> "none", sector |-> choice,
              cache |-> (cache \ cached(cache, i_graph))
                           \cup {<<i_graph, choice>>}] :
                choice \in available}

\* _get_sector_to_study(i_graph): the sector it can return, the error it
\* raises otherwise, and self._graph_to_sector after the call.
\* np.random.choice raises ValueError on an empty list.
get_sector_to_study(cache, sectors, i_graph) ==
    IF cached(cache, i_graph) # {}
    THEN {[exc |-> "none", sector |-> item[2], cache |-> cache] :
             item \in cached(cache, i_graph)}
    ELSE LET available == np_unique(sectors[i_graph + 1]) \ {-1}
         IN IF available = {}
            THEN {[exc |-> "ValueError", sector |-> 0, cache |-> cache]}
            ELSE {[exc |-> "none", sector |-> choice,
                   cache |-> cache \cup {<<i_graph, choice>>}] :
                     choice \in available}

\* x[sector_mask] of a one-dimensional x of n entries, sector_mask having
\* the shape of self.sectors[i_graph]: IndexError unless the mask has one
\* dimension of length n
boolean_index_error(n, mask_shape) ==
    IF mask_shape = <<n>> THEN "none" ELSE "IndexError"

\* the scores of a trial: np.nanmean of the guide metric over the graphs
Scores == {Fin(1), Fin(2), NaN}

\* the parameters of a trial: suggested by the sampler, or given by the
\* caller as start_params
StartParams == {None, "p"}

\* self._study = None
NoStudy ==
    [is_None |-> TRUE, id |-> 0, n_trials |-> 0, n_complete |-> 0,
     best_value |-> Fin(0), best_params |-> None, queue |-> <<>>,
     stop_flag |-> FALSE]

\* _scan creating a study at every call
study_of_scan_always_new(study, id) ==
    [NoStudy EXCEPT !.is_None = FALSE, !.id = id]

\* _scan, lines 254-258: the study the scan runs on, created by
\* optuna.create_study if there is none
study_of_scan(study, id) ==
    IF study.is_None THEN [NoStudy EXCEPT !.is_None = FALSE, !.id = id]
    ELSE study

\* study.enqueue_trial(params)
enqueue_trial(study, params) ==
    [study EXCEPT !.queue = Append(@, params)]

\* MedianPruner.prune: no trial is pruned while the study has no completed
\* trial to compare with, nor before the trial has reported a value
may_prune(study, reports) == study.n_complete > 0 /\ reports # <<>>

\* the study when a trial has returned value: a NaN value fails the trial,
\* any other completes it
tell(study, params, value) ==
    IF value = NaN THEN study
    ELSE [study EXCEPT
            !.n_complete = @ + 1,
            !.best_value =
                IF study.n_complete = 0 \/ value.v > study.best_value.v
                THEN value ELSE @,
            !.best_params =
                IF study.n_complete = 0 \/ value.v > study.best_value.v
                THEN params ELSE @]

\* self.pruning_grace_period = 20
pruning_grace_period == 20

NoScanCall ==
    [via |-> "none", start_params |-> None, n_trials |-> 0, started |-> 0,
     tried |-> {}, stopped_at |-> 0, evaluations |-> 0,
     outcome |-> "none", metrics |-> {}, algorithm_calls |-> <<>>,
     values |-> <<>>]

\* A trial of the study and the locals of _objective running it:
\* reports are the calls trial.report(value, step); quality is what the
\* guide metric gives for the labels the algorithm returns for the
\* parameters of the trial (one value for all graphs, NaN included);
\* all_labels holds for each graph the (graph, sector) the algorithm was
\* run on, a figure of merit the metric, the (graph, sector) of the truth
\* and of the labels it was computed from, and its value.
NoTrial ==
    [state |-> "none", params |-> None, i_graph |-> 0, reports |-> <<>>,
     es_calls |-> 0, quality |-> Fin(0), all_labels |-> <<>>,
     cheap_foms |-> <<>>, expensive_foms |-> <<>>, value |-> Fin(0)]

\* no ClusterScanResult has been returned.  A result holds the study itself
\* (by its identity) and the metrics (call.metrics, call.values); read_* is
\* what its properties best_params and best_value gave when it was returned.
NoResult ==
    [exists |-> FALSE, study |-> 0, read_params |-> None,
     read_value |-> Fin(0)]

\* ClusterScanResult.best_params and .best_value of the result held in s:
\* return self.study.best_params, return self.study.best_value
result_best(s) ==
    [params |-> s.study.best_params, value |-> s.study.best_value]

\* an early-stopping policy that is not reset by _scan
es_not_reset(es) == [es EXCEPT !.resets = @ + 1]

\* self._es.reset(): the policy forgets the scores it has seen
es_reset(es) == [resets |-> es.resets + 1, seen |-> 0]

\* before ClusterHyperParamScanner(**args) is evaluated; user is what the
\* user of the scanner will call its scans with
NotConstructed(args) ==
    [constructed |-> FALSE, error |-> "none", args |-> args, sectors |-> <<>>,
     user |-> [via |-> {"scan", "_scan"}, start_params |-> StartParams,
               n_trials |-> 0 .. MaxTrials],
     study |-> NoStudy, graph_to_sector |-> {}, returned |-> {},
     pruning_grace_period |-> 0, calls |-> 0, pc |-> "new", call |-> NoScanCall, trial |-> NoTrial,
     es |-> [resets |-> 0, seen |-> 0], result |-> NoResult]

\* ClusterHyperParamScanner.__init__
ScannerInit ==
    /\ scan.pc = "new"
    /\ scan' = IF init_error(scan.args) = "none"
               THEN [scan EXCEPT !.constructed = TRUE,
                                 !.sectors = init_sectors(scan.args),
                                 !.pruning_grace_period = pruning_grace_period,
                                 !.pc = "idle"]
               ELSE [scan EXCEPT !.error = init_error(scan.args),
                                 !.pc = "failed"]
    /\ UNCHANGED <<maskVars, lossVars, trainVars>>

\* scan(start_params, **kwargs) ends in self._scan(**kwargs): start_params
\* is no entry of kwargs, _scan gets the default of its parameter
start_params_of_scan(start_params) == None

\* scan(start_params, n_trials=n) and _scan(start_params, n_trials=n), up
\* to the call of study.optimize, which clears the stop flag of the study
ScanCall ==
    /\ scan.pc = "idle"
    /\ scan.calls < MaxScans
    /\ \E via \in scan.user.via, start_params \in scan.user.start_params,
          n_trials \in scan.user.n_trials :
          LET given == IF via = "scan"
                       THEN start_params_of_scan(start_params)
                       ELSE start_params
              study == study_of_scan(scan.study, scan.calls + 1)
              queued == IF given # None THEN enqueue_trial(study, given)
                        ELSE study
          IN scan' = [scan EXCEPT
                        !.study = [queued EXCEPT !.stop_flag = FALSE],
                        !.calls = @ + 1,
                        !.es = es_reset(@),
                        !.pc = "optimize",
                        !.trial = NoTrial,
                        !.call = [NoScanCall EXCEPT
                                    !.via = via,
                                    !.start_params = start_params,
                                    !.n_trials = n_trials,
                                    !.outcome = "running"]]
    /\ UNCHANGED <<maskVars, lossVars, trainVars>>

\* study.optimize: the next trial is started, with the parameters of the
\* first waiting trial if there is one; _objective begins
TrialStart ==
    /\ scan.pc = "optimize"
    /\ ~scan.study.stop_flag
    /\ scan.call.started < scan.call.n_trials
    /\ LET params == IF scan.study.queue # <<>> THEN Head(scan.study.queue)
                     ELSE "sampled"
       IN scan' = [scan EXCEPT
                     !.study.queue = IF @ # <<>> THEN Tail(@) ELSE @,
                     !.study.n_trials = @ + 1,
                     !.call.started = @ + 1,
                     !.call.tried = @ \cup {params},
                     !.trial = [NoTrial EXCEPT !.state = "running",
                                               !.params = params],
                     !.pc = "first_pass"]
    /\ UNCHANGED <<maskVars, lossVars, trainVars>>

\* study.optimize returns: the study was stopped or the budget is used up
OptimizeEnd ==
    /\ scan.pc = "optimize"
    /\ scan.study.stop_flag \/ scan.call.started >= scan.call.n_trials
    /\ scan' = [scan EXCEPT !.pc = "evaluate"]
    /\ UNCHANGED <<maskVars, lossVars, trainVars>>

\* an exception other than TrialPruned leaves _objective: the trial has
\* failed, optimize and scan raise it
trial_raised(s, exc) ==
    [s EXCEPT !.trial.state = "fail", !.call.outcome = exc, !.pc = "idle"]

\* TrialPruned leaving optimize and scan as any other exception would
trial_pruned_raises(s) ==
    [s EXCEPT !.trial.state = "pruned", !.call.outcome = "TrialPruned",
              !.pc = "idle"]

\* TrialPruned leaves _objective: optimize records the trial as pruned and
\* goes on
trial_pruned(s) == [s EXCEPT !.trial.state = "pruned", !.pc = "optimize"]

\* the mean of a list of values, NaN if one of them is NaN; a mean is the
\* sum and the number of the values it is taken over
RECURSIVE mean(_)
mean(values) ==
    IF values = <<>> THEN NaN
    ELSE IF Head(values) = NaN THEN NaN
    ELSE IF Len(values) = 1 THEN [k |-> "mean", sum |-> Head(values).v, n |-> 1]
    ELSE LET rest == mean(Tail(values))
         IN IF rest = NaN THEN NaN
            ELSE [k |-> "mean", sum |-> rest.sum + Head(values).v,
                  n |-> rest.n + 1]

\* np.nanmean(values): the mean of the values that are not NaN, NaN if
\* there is none
nanmean(values) == mean(SelectSeq(values, LAMBDA v : v # NaN))

\* np.nanmean(values).item() as a score: the values of one trial that are
\* not NaN are equal, so that their mean is one of them
item(m) == IF m = NaN THEN NaN ELSE Fin(m.sum \div m.n)

\* one graph of a pass of _objective: sector, mask, labels (first pass) and
\* metric, the report to the pruner, trial.should_prune()
PassOverGraph(first, report, step, next_pc) ==
    LET i == scan.trial.i_graph
        \* self._cheap_metric or self._expensive_metric
        name == IF first /\ scan.args.guide_proxy # <<>>
                THEN scan.args.guide_proxy ELSE scan.args.guide
        \* _get_explicit_metric(name, truth=truth, predicted=labels): the
        \* guide metric gives the quality of the labels, any other metric 3
        explicit_metric(q) ==
            IF i \in scan.args.nan_on THEN NaN
            ELSE IF name = scan.args.guide THEN q
            ELSE IF q = NaN THEN NaN ELSE Fin(3)
    IN \E got \in get_sector_to_study(scan.graph_to_sector, scan.sectors, i) :
        IF got.exc # "none"
        THEN scan' = trial_raised(scan, got.exc)
        ELSE LET seen == [scan EXCEPT
                            !.graph_to_sector = got.cache,
                            !.returned = @ \cup {<<i, got.sector>>}]
                 exc == boolean_index_error(Len(scan.args.truth[i + 1]),
                                            scan.sectors[i + 1].shape)
             IN IF exc # "none"
                THEN scan' = trial_raised(seen, exc)
                ELSE \E q \in IF first /\ i = 0 THEN Scores
                              ELSE {scan.trial.quality} :
                     \E should_prune \in BOOLEAN :
                        LET labels == IF first THEN <<i, got.sector>>
                                      ELSE scan.trial.all_labels[i + 1]
                            fom == [metric |-> name,
                                    truth |-> <<i, got.sector>>,
                                    labels |-> labels,
                                    value |-> explicit_metric(q)]
                            scored ==
                                [seen EXCEPT
                                   !.trial.quality = q,
                                   !.trial.all_labels =
                                       IF first THEN Append(@, labels) ELSE @,
                                   !.trial.cheap_foms =
                                       IF first THEN Append(@, fom) ELSE @,
                                   !.trial.expensive_foms =
                                       IF first THEN @ ELSE Append(@, fom)]
                            foms == IF first THEN scored.trial.cheap_foms
                                    ELSE scored.trial.expensive_foms
                            v == item(nanmean([j \in 1 .. Len(foms) |->
                                                  foms[j].value]))
                            reported ==
                                [scored EXCEPT
                                   !.trial.reports =
                                       IF report
                                       THEN Append(@, [step |-> step,
                                                       value |-> v])
                                       ELSE @]
                        IN /\ should_prune =>
                                 may_prune(scan.study, reported.trial.reports)
                           /\ scan' =
                                 IF should_prune THEN trial_pruned(reported)
                                 ELSE IF i + 1 < Len(scan.args.graphs)
                                 THEN [reported EXCEPT !.trial.i_graph = i + 1]
                                 ELSE [reported EXCEPT !.trial.i_graph = 0,
                                                       !.pc = next_pc]

\* the first pass reporting only after one more graph than the grace period
FirstPassReportsLate ==
    /\ scan.pc = "first_pass"
    /\ PassOverGraph(TRUE,
                     scan.trial.i_graph > scan.pruning_grace_period,
                     scan.trial.i_graph,
                     IF scan.args.guide_proxy = <<>> THEN "objective_end"
                     ELSE "second_pass")
    /\ UNCHANGED <<maskVars, lossVars, trainVars>>

\* the second pass counting its steps from 0 as the first pass does
SecondPassStepsFromZero ==
    /\ scan.pc = "second_pass"
    /\ PassOverGraph(FALSE,
                     scan.trial.i_graph >= 2,
                     scan.trial.i_graph,
                     "objective_end")
    /\ UNCHANGED <<maskVars, lossVars, trainVars>>

\* _objective, lines 168-188: one graph of the first pass
FirstPass ==
    /\ scan.pc = "first_pass"
    /\ PassOverGraph(TRUE,
                     scan.trial.i_graph >= scan.pruning_grace_period,
                     scan.trial.i_graph,
                     IF scan.args.guide_proxy = <<>> THEN "objective_end"
                     ELSE "second_pass")
    /\ UNCHANGED <<maskVars, lossVars, trainVars>>

\* _objective, lines 196-209: one graph of the second pass
SecondPass ==
    /\ scan.pc = "second_pass"
    /\ PassOverGraph(FALSE,
                     scan.trial.i_graph >= 2,
                     scan.trial.i_graph + Len(scan.args.graphs),
                     "objective_end")
    /\ UNCHANGED <<maskVars, lossVars, trainVars>>

\* trial.study.stop() not called
study_not_stopped(study, stop) == study

\* if self._es(global_fom): trial.study.stop()
study_stop(study, stop) == [study EXCEPT !.stop_flag = stop]

\* _objective returning the mean of the figures of merit of the first pass
ObjectiveEndOnFirstPass ==
    /\ scan.pc = "objective_end"
    /\ \E stop \in BOOLEAN :
          LET \* expensive_foms = cheap_foms
              expensive_foms == scan.trial.cheap_foms
              global_fom == item(nanmean([j \in 1 .. Len(expensive_foms) |->
                                             expensive_foms[j].value]))
          IN
          scan' = [scan EXCEPT
                     !.trial.es_calls = @ + 1,
                     !.trial.value = global_fom,
                     !.es.seen = @ + 1,
                     !.trial.state = IF global_fom = NaN THEN "fail"
                                     ELSE "complete",
                     !.call.stopped_at = IF stop THEN scan.call.started ELSE @,
                     !.study = tell(study_stop(scan.study, stop),
                                    scan.trial.params, global_fom),
                     !.pc = "optimize"]
    /\ UNCHANGED <<maskVars, lossVars, trainVars>>

\* _objective, lines 210-214, and optimize taking the value returned
ObjectiveEnd ==
    /\ scan.pc = "objective_end"
    /\ \E stop \in BOOLEAN :
          LET \* if not self._cheap_metric: expensive_foms = cheap_foms
              expensive_foms == IF scan.args.guide_proxy = <<>>
                                THEN scan.trial.cheap_foms
                                ELSE scan.trial.expensive_foms
              global_fom == item(nanmean([j \in 1 .. Len(expensive_foms) |->
                                             expensive_foms[j].value]))
          IN
          scan' = [scan EXCEPT
                     !.trial.es_calls = @ + 1,
                     !.trial.value = global_fom,
                     !.es.seen = @ + 1,
                     !.trial.state = IF global_fom = NaN THEN "fail"
                                     ELSE "complete",
                     !.call.stopped_at = IF stop THEN scan.call.started ELSE @,
                     !.study = tell(study_stop(scan.study, stop),
                                    scan.trial.params, global_fom),
                     !.pc = "optimize"]
    /\ UNCHANGED <<maskVars, lossVars, trainVars>>

\* __evaluate looking only at the sector each graph was studied on
evaluated_pairs_cached_only(s) == s.graph_to_sector

\* the (graph, sector) pairs of __evaluate: every sector of every graph but
\* the background -1
evaluated_pairs(s) ==
    UNION {{<<i, sector>> : sector \in np_unique(s.sectors[i + 1]) \ {-1}} :
              i \in 0 .. Len(s.args.graphs) - 1}

\* the calls self.algorithm(sector_graph, **params) of __evaluate, in the
\* order of its loops: by graph, then by sector (np.unique sorts)
algorithm_calls(s) ==
    LET pairs == evaluated_pairs(s)
        before(a, b) == a[1] < b[1] \/ (a[1] = b[1] /\ a[2] < b[2])
    IN CHOOSE seq \in [1 .. Cardinality(pairs) -> pairs] :
          \A j \in 1 .. Cardinality(pairs) - 1 : before(seq[j], seq[j + 1])

\* metric(sector_truth, labels) for the hits of a graph in a sector, here:
\* the number of these hits, and NaN when there is only one
metric_value(s, pair) ==
    LET hits == s.sectors[pair[1] + 1].flat
        n == Cardinality({h \in 1 .. Len(hits) : hits[h] = pair[2]})
    IN IF n = 1 THEN NaN ELSE Fin(n)

\* the keys under which __evaluate collects the values of a metric; here
\* with the name of a mapping-valued metric among them
metric_keys_with_name(m) ==
    {m.name} \cup {dotted(m.name, k) : k \in m.subkeys}

\* the keys under which __evaluate collects the values of a metric
metric_keys(m) ==
    IF ~m.is_mapping THEN {m.name}
    ELSE {dotted(m.name, k) : k \in m.subkeys}

\* __evaluate: the keys of the dict it returns
evaluate(s) ==
    IF evaluated_pairs(s) = {} THEN {}
    ELSE UNION {metric_keys(m) : m \in s.args.metrics}

\* __evaluate: the value of each key of the dict it returns, np.nanmean of
\* the values collected under the key, one for each call of the algorithm
metric_values(s) ==
    LET calls == algorithm_calls(s)
        value == nanmean([j \in 1 .. Len(calls) |-> metric_value(s, calls[j])])
    IN [key \in evaluate(s) |-> value]

\* _scan, line 266: _evaluate and the result; study.best_params raises
\* ValueError when no trial of the study has completed
Evaluate ==
    /\ scan.pc = "evaluate"
    /\ scan' =
          IF scan.study.n_complete = 0
          THEN [scan EXCEPT !.call.evaluations = @ + 1,
                            !.call.outcome = "ValueError",
                            !.pc = "idle"]
          ELSE IF \E pair \in evaluated_pairs(scan) :
                     boolean_index_error(
                         Len(scan.args.truth[pair[1] + 1]),
                         scan.sectors[pair[1] + 1].shape) # "none"
          THEN [scan EXCEPT !.call.evaluations = @ + 1,
                            !.call.outcome = "IndexError",
                            !.pc = "idle"]
          ELSE [scan EXCEPT !.call.evaluations = @ + 1,
                            !.call.outcome = "returned",
                            !.call.metrics = evaluate(scan),
                            !.call.algorithm_calls = algorithm_calls(scan),
                            !.call.values = metric_values(scan),
                            !.result = [exists |-> TRUE,
                                        study |-> scan.study.id,
                                        read_params |-> result_best(scan).params,
                                        read_value |-> result_best(scan).value],
                            !.pc = "idle"]
    /\ UNCHANGED <<maskVars, lossVars, trainVars>>

\* _get_sector_to_study(i_graph), called on a scanner at rest
GetSectorCall ==
    /\ scan.pc = "idle"
    /\ \E i \in 0 .. Len(scan.args.graphs) - 1 :
          \E got \in get_sector_to_study(scan.graph_to_sector, scan.sectors, i) :
             /\ got.exc = "none"
             /\ scan' = [scan EXCEPT
                           !.graph_to_sector = got.cache,
                           !.returned = @ \cup {<<i, got.sector>>}]
    /\ UNCHANGED <<maskVars, lossVars, trainVars>>

InitScan ==
    /\ TrainerIdle
    /\ cfg = DefaultTruthCutConfig
    /\ data = MkData(0, <<>>, <<>>)
    /\ mcall = NoMaskCalls
    /\ lcall = NoCall
    /\ \E args \in ScannerArgs : scan = NotConstructed(args)

NextScan ==
    \/ ScannerInit
    \/ ScanCall
    \/ TrialStart
    \/ OptimizeEnd
    \/ FirstPass
    \/ SecondPass
    \/ ObjectiveEnd
    \/ Evaluate
    \/ GetSectorCall

SpecScan == InitScan /\ [][NextScan]_vars

(***************************************************************************)
(* The passes of a trial with reports to the pruner: three graphs, with    *)
(* and without a proxy metric, a metric that is NaN on the second graph,   *)
(* and a grace period set by the user.                                     *)
(***************************************************************************)
InitPrune ==
    /\ TrainerIdle
    /\ cfg = DefaultTruthCutConfig
    /\ data = MkData(0, <<>>, <<>>)
    /\ mcall = NoMaskCalls
    /\ lcall = NoCall
    /\ \E guide_proxy \in {<<>>, <<"p">>}, nan_on \in {{}, {1}} :
          scan = [NotConstructed(
                    [graphs |-> <<<<1, 2>>, <<3, 4>>, <<5, 6>>>>,
                     truth |-> <<<<1, 1>>, <<1, 2>>, <<2, 2>>>>,
                     sectors |-> [is_None |-> FALSE,
                                  list |-> <<<<1, 2>>, <<-1, 1>>, <<1, 1>>>>],
                     metrics |->
                         {[name |-> <<"v">>, is_mapping |-> FALSE,
                           subkeys |-> {}],
                          [name |-> <<"p">>, is_mapping |-> FALSE,
                           subkeys |-> {}]},
                     guide |-> <<"v">>,
                     guide_proxy |-> guide_proxy,
                     nan_on |-> nan_on])
                  \* scans of the full budget, without start parameters
                  EXCEPT !.user = [via |-> {"scan"}, start_params |-> {None},
                                   n_trials |-> {MaxTrials}]]

\* scanner.pruning_grace_period = 1, assigned by the user of a scanner
\* before its first scan
SetGracePeriod ==
    /\ scan.pc = "idle"
    /\ scan.calls = 0
    /\ scan.pruning_grace_period # 1
    /\ scan' = [scan EXCEPT !.pruning_grace_period = 1]
    /\ UNCHANGED <<maskVars, lossVars, trainVars>>

NextPrune ==
    \/ ScannerInit
    \/ SetGracePeriod
    \/ ScanCall
    \/ TrialStart
    \/ OptimizeEnd
    \/ FirstPass
    \/ SecondPass
    \/ ObjectiveEnd
    \/ Evaluate

SpecPrune == InitPrune /\ [][NextPrune]_vars

\* C13: the sector of a graph is stable: a step never removes or changes an
\* entry of the cache, the cache holds one sector for a graph, and what
\* _get_sector_to_study returns for a graph is what it has returned and cached
\* for that graph before, in this scan or an earlier one.
C13_SectorChoiceIsCacheStable ==
    [][/\ scan.graph_to_sector \subseteq scan'.graph_to_sector
       /\ \A a \in scan'.graph_to_sector : \A b \in scan'.graph_to_sector :
             a[1] = b[1] => a = b
       /\ \A r \in scan'.returned :
             \A q \in scan.returned \cup scan.graph_to_sector :
                q[1] = r[1] => q[2] = r[2]]_vars

\* in its second scan the scanner has met graph 0 again, which has two
\* sectors to choose from, and goes on with the sector chosen first
C13_Witness ==
    /\ scan.calls = 2
    /\ scan.pc = "first_pass"
    /\ scan.trial.i_graph = 1
    /\ scan.study.n_trials > scan.call.started
    /\ <<0, 2>> \in scan.returned
    /\ Cardinality(np_unique(scan.sectors[1]) \ {-1}) = 2

\* C14: a scan called with start_params = p, p not None, runs p as a trial:
\* the first trial it starts has the parameters p.
C14_StartParamsAreTried ==
    (/\ scan.call.via = "scan"
     /\ scan.call.start_params # None
     /\ scan.call.started > 0) => scan.call.start_params \in scan.call.tried

\* C15: the study is created by the first scan call and is the same object
\* ever after; the number of its trials and of its completed trials never
\* falls, and neither does its best value.
C15_OneSearchAcrossScans ==
    [][/\ scan'.calls > 0 => ~scan'.study.is_None
       /\ scan.study.is_None /\ ~scan'.study.is_None =>
             scan.calls = 0 /\ scan'.calls = 1
       /\ ~scan.study.is_None =>
             /\ ~scan'.study.is_None
             /\ scan'.study.id = scan.study.id
             /\ scan'.study.n_trials >= scan.study.n_trials
             /\ scan'.study.n_complete >= scan.study.n_complete
             /\ scan.study.n_complete > 0 =>
                   scan'.study.best_value.v >= scan.study.best_value.v]_vars

\* the second scan has run a trial on the study of the first, which holds
\* the trials of both and a best value
C15_Witness ==
    /\ scan.calls = 2
    /\ scan.study.id = 1
    /\ scan.call.started > 0
    /\ scan.study.n_trials > scan.call.started
    /\ scan.study.n_complete > 1
    /\ scan.study.best_value = Fin(2)

\* C16: a trial that completes has passed its score to the early-stopping
\* policy exactly once; once the policy has signalled convergence in a scan,
\* that scan starts no further trial.
C16_EarlyStoppingEndsTheSearch ==
    [][/\ scan'.trial.state = "complete" => scan'.trial.es_calls = 1
       /\ scan.call.stopped_at > 0 /\ scan'.calls = scan.calls =>
             /\ scan'.call.started = scan.call.stopped_at
             /\ scan'.trial.state \in {"complete", "fail"}
             /\ scan'.pc \in {"optimize", "evaluate", "idle"}]_vars

\* a scan with a budget of two trials has returned after its first trial,
\* at which the policy signalled convergence
C16_Witness ==
    /\ scan.pc = "idle"
    /\ scan.call.outcome = "returned"
    /\ scan.call.n_trials = 2
    /\ scan.call.started = 1
    /\ scan.call.stopped_at = 1

\* C17: a pruned trial ends alone: the step that prunes it consults no
\* early-stopping policy, adds no completed trial and no score to the study,
\* and returns to optimize with the scan still running; the study is not
\* stopped, so that the next trial starts while budget remains, and a scan
\* whose last trial was pruned does not fail.
C17_PruningEndsOnlyTheTrial ==
    [][/\ scan'.trial.state = "pruned" /\ scan.trial.state # "pruned" =>
             /\ scan.trial.state = "running"
             /\ scan'.trial.es_calls = 0
             /\ scan'.study = scan.study
             /\ scan'.pc = "optimize"
             /\ scan'.call.outcome = "running"
       /\ scan'.trial.state = "pruned" =>
             /\ ~scan'.study.stop_flag
             /\ scan'.call.outcome \in {"running", "returned"}]_vars

\* the first trial of a scan with a budget of two was pruned, the scan is
\* about to start the second
C17_Witness ==
    /\ scan.pc = "optimize"
    /\ scan.trial.state = "pruned"
    /\ scan.call.started = 1
    /\ scan.call.n_trials = 2
    /\ scan.call.outcome = "running"

\* C18: the constructor raises when the graph list is empty, when the graph
\* and truth lists differ in number or in the length of an entry, or when a
\* metric name contains a dot: no scanner comes to exist, no scan is run.
C18_ConstructorRefusesBadArguments ==
    LET args == scan.args
        refused ==
            \/ Len(args.graphs) = 0
            \/ Len(args.graphs) # Len(args.truth)
            \/ \E i \in 1 .. Len(args.graphs) :
                  Len(args.graphs[i]) # Len(args.truth[i])
            \/ \E m \in args.metrics : \E i \in 1 .. Len(m.name) : m.name[i] = "."
    IN (scan.pc # "new" /\ refused) =>
          /\ ~scan.constructed
          /\ scan.error \in {"AssertionError", "ValueError"}
          /\ scan.pc = "failed"
          /\ scan.calls = 0
          /\ scan.study.is_None

\* the constructor has raised ValueError on a metric name with a dot, the
\* graphs and the truth being in order
C18_Witness ==
    /\ scan.pc = "failed"
    /\ scan.error = "ValueError"
    /\ \E m \in scan.args.metrics : \E i \in 1 .. Len(m.name) : m.name[i] = "."
    /\ Len(scan.args.graphs) = 2
    /\ \A i \in 1 .. 2 : Len(scan.args.graphs[i]) = Len(scan.args.truth[i])

\* C19: a scan with the budget n ends by returning a result, after at most
\* n trials, fewer only if the early-stopping policy signalled convergence,
\* and after one post-scan evaluation.
C19_ScanReturnsWithinBudget ==
    scan.call.outcome \notin {"none", "running"} =>
        /\ scan.call.outcome = "returned"
        /\ scan.call.started <= scan.call.n_trials
        /\ scan.call.started < scan.call.n_trials => scan.call.stopped_at > 0
        /\ scan.call.evaluations = 1

\* C20 as stated: the keys of the metrics of a result are the configured
\* metric names and, for every subkey of a mapping-valued metric, the dotted
\* key name.subkey.
C20_KeysAreNamesAndDottedKeys ==
    scan.call.outcome = "returned" =>
        scan.call.metrics =
            {m.name : m \in scan.args.metrics}
                \cup UNION {{dotted(m.name, k) : k \in m.subkeys} :
                               m \in {x \in scan.args.metrics : x.is_mapping}}

\* C20, amended: the keys of the metrics of a result are the names of the
\* float-valued metrics and, for each mapping-valued metric, name.subkey for
\* each of its subkeys; the name of a mapping-valued metric is no key.
C20_KeysAreFloatNamesAndDottedKeys ==
    scan.call.outcome = "returned" =>
        scan.call.metrics =
            {m.name : m \in {x \in scan.args.metrics : ~x.is_mapping}}
                \cup UNION {{dotted(m.name, k) : k \in m.subkeys} :
                               m \in {x \in scan.args.metrics : x.is_mapping}}

\* a scan has returned the metrics of a scanner with a float-valued and a
\* mapping-valued metric
C20_Witness ==
    /\ scan.call.outcome = "returned"
    /\ \E m \in scan.args.metrics : m.is_mapping /\ m.subkeys # {}
    /\ \E m \in scan.args.metrics : ~m.is_mapping
    /\ <<"d", ".", "a">> \in scan.call.metrics
    /\ <<"v">> \in scan.call.metrics

\* the (graph, sector) pairs C21 names: the sector occurs among the hits of
\* the graph and is not the background -1
EligiblePairs ==
    {pair \in (0 .. Len(scan.args.graphs) - 1) \X {-1, 1, 2} :
        /\ pair[2] # -1
        /\ \E h \in 1 .. Len(scan.sectors[pair[1] + 1].flat) :
              scan.sectors[pair[1] + 1].flat[h] = pair[2]}

\* the algorithm has run exactly once for every eligible pair and for
\* nothing else
RanOnceForEveryEligiblePair ==
    /\ \A j \in 1 .. Len(scan.call.algorithm_calls) :
          scan.call.algorithm_calls[j] \in EligiblePairs
    /\ \A pair \in EligiblePairs :
          Cardinality({j \in 1 .. Len(scan.call.algorithm_calls) :
                          scan.call.algorithm_calls[j] = pair}) = 1

\* the values of the metric on the pairs the algorithm has run for
ValuesOfTheCalls ==
    [j \in 1 .. Len(scan.call.algorithm_calls) |->
        metric_value(scan, scan.call.algorithm_calls[j])]

\* C21 as stated: the post-scan evaluation runs the algorithm exactly once
\* for every eligible (graph, sector) pair, never for the background, and
\* every reported value is the mean of the metric over all these pairs.
C21_ValuesAreMeansOverAllPairs ==
    scan.call.outcome = "returned" =>
        /\ RanOnceForEveryEligiblePair
        /\ \A key \in scan.call.metrics :
              scan.call.values[key] = mean(ValuesOfTheCalls)

\* C21, amended: the post-scan evaluation runs the algorithm exactly once
\* for every eligible (graph, sector) pair, never for the background, and
\* every reported value is the mean of the metric over those of these pairs
\* on which it is not NaN, NaN if there is no such pair.
C21_ValuesAreNanMeansOverAllPairs ==
    scan.call.outcome = "returned" =>
        /\ RanOnceForEveryEligiblePair
        /\ DOMAIN scan.call.values = scan.call.metrics
        /\ \A key \in scan.call.metrics :
              scan.call.values[key] =
                  mean(SelectSeq(ValuesOfTheCalls, LAMBDA v : v # NaN))

\* a scan has returned after four runs of the algorithm, one of them for a
\* sector that was not the cached one of its graph; the metric was NaN on
\* three of the pairs and the value reported is the mean over the fourth
C21_Witness ==
    /\ scan.call.outcome = "returned"
    /\ Len(scan.call.algorithm_calls) = 4
    /\ \E j \in 1 .. 4 : scan.call.algorithm_calls[j] \notin scan.graph_to_sector
    /\ \A j \in 1 .. 4 : scan.call.algorithm_calls[j][2] # -1
    /\ scan.call.values[<<"v">>] = [k |-> "mean", sum |-> 2, n |-> 1]

\* C22: what the properties best_params and best_value of a returned result
\* give is what they gave when the result was returned, whatever scans
\* have run on the scanner since.
C22_ResultIsImmutable ==
    scan.result.exists =>
        /\ result_best(scan).params = scan.result.read_params
        /\ result_best(scan).value = scan.result.read_value

\* C23: a scanner constructed without sectors holds, for every graph, a
\* sector vector with one entry for each hit of the graph, every entry being
\* the one sector 1.
C23_DefaultSectorsCoverAllHits ==
    (scan.constructed /\ scan.args.sectors.is_None) =>
        \A i \in 1 .. Len(scan.args.truth) :
            /\ scan.sectors[i].shape = <<Len(scan.args.truth[i])>>
            /\ Len(scan.sectors[i].flat) = Len(scan.args.truth[i])
            /\ \A h \in 1 .. Len(scan.sectors[i].flat) : scan.sectors[i].flat[h] = 1

\* C26: the policy has been reset once for every scan call; the step that
\* starts a scan resets it before any trial of the scan is started, and the
\* scores the policy holds are never more than the trials of the scan in
\* progress have given it.
C26_ResetOncePerScan ==
    [][/\ scan'.es.resets = scan'.calls
       /\ scan'.calls # scan.calls =>
             scan'.es.seen = 0 /\ scan'.call.started = 0
       /\ scan'.es.seen <= scan'.call.started]_vars

\* the second scan has given the policy the score of its first trial, after
\* a first scan that had given it two
C26_Witness ==
    /\ scan.calls = 2
    /\ scan.pc = "optimize"
    /\ scan.call.started = 1
    /\ scan.es.seen = 1
    /\ scan.es.resets = 2
    /\ scan.study.n_trials = 3
    /\ scan.study.n_complete = 3

C33_ScoreIsMeanOfGuideOverAllGraphs ==
    LET t == scan.trial
        guide_foms == IF scan.args.guide_proxy # <<>> THEN t.expensive_foms
                      ELSE t.cheap_foms
    IN (t.es_calls = 1 /\ t.state = "complete") =>
          /\ Len(guide_foms) = Len(scan.args.graphs)
          /\ \A j \in 1 .. Len(guide_foms) :
                guide_foms[j].metric = scan.args.guide
          /\ t.value = item(mean([j \in 1 .. Len(guide_foms) |->
                                     guide_foms[j].value]))

\* C33 as the code has it: the same, the score of a trial being np.nanmean
\* of the guide metric: its mean over the graphs on which it is not NaN, and
\* NaN, which fails the trial, only when it is NaN on every graph.
C33_ScoreIsNanMeanOfGuide ==
    LET t == scan.trial
        n == Len(scan.args.graphs)
        proxy == scan.args.guide_proxy # <<>>
        guide_foms == IF proxy THEN t.expensive_foms ELSE t.cheap_foms
    IN /\ scan.pc = "second_pass" => proxy
       /\ ~proxy => t.expensive_foms = <<>>
       /\ (scan.pc = "objective_end" \/ t.es_calls = 1) =>
             /\ Len(t.all_labels) = n
             /\ Len(t.cheap_foms) = n
             /\ Len(t.expensive_foms) = IF proxy THEN n ELSE 0
       \* the algorithm ran once on each graph, in the first pass
       /\ Len(t.all_labels) = Len(t.cheap_foms)
       /\ \A j \in 1 .. Len(t.cheap_foms) :
             /\ t.all_labels[j][1] = j - 1
             /\ t.cheap_foms[j].labels = t.all_labels[j]
             /\ t.cheap_foms[j].truth = t.all_labels[j]
             /\ t.cheap_foms[j].metric =
                   IF proxy THEN scan.args.guide_proxy ELSE scan.args.guide
       /\ \A j \in 1 .. Len(t.expensive_foms) :
             /\ t.expensive_foms[j].metric = scan.args.guide
             /\ t.expensive_foms[j].labels = t.all_labels[j]
             /\ t.expensive_foms[j].truth = t.all_labels[j]
             /\ t.expensive_foms[j].truth \in scan.graph_to_sector
       /\ t.es_calls = 1 =>
             /\ \A j \in 1 .. Len(guide_foms) :
                   guide_foms[j].metric = scan.args.guide
             /\ t.value = item(nanmean([j \in 1 .. Len(guide_foms) |->
                                           guide_foms[j].value]))
             /\ t.state = IF t.value = NaN THEN "fail" ELSE "complete"

\* a trial with a proxy metric completed with the score 2, the value of the
\* guide metric on the first and the third graph, the guide metric being NaN
\* on the second graph and the proxy metric 3 on the first
C33_Witness ==
    /\ scan.args.guide_proxy = <<"p">>
    /\ scan.args.nan_on = {1}
    /\ scan.trial.es_calls = 1
    /\ scan.trial.state = "complete"
    /\ scan.trial.value = Fin(2)
    /\ Len(scan.trial.expensive_foms) = 3
    /\ scan.trial.expensive_foms[2].value = NaN
    /\ scan.trial.cheap_foms[1].value = Fin(3)
    /\ scan.trial.expensive_foms[1].truth = <<0, 2>>

\* C37: within one trial the step numbers under which values are reported to
\* the pruner are strictly increasing over the first and the second pass
\* together: no step number is reported twice, the first pass reports under
\* the indices of the graphs, and every step of the second pass is larger
\* than every step of the first.
C37_ReportStepsIncrease ==
    [][LET old == scan.trial.reports
           new == scan'.trial.reports
           n == Len(scan.args.graphs)
       IN /\ \A j, k \in 1 .. Len(new) : j < k => new[j].step < new[k].step
          /\ new # old =>
                \/ new = <<>> /\ scan'.pc \in {"optimize", "first_pass"}
                \/ /\ scan.pc = "first_pass"
                   /\ Len(new) = Len(old) + 1
                   /\ SubSeq(new, 1, Len(old)) = old
                   /\ new[Len(new)].step = scan.trial.i_graph
                   /\ new[Len(new)].step < n
                \/ /\ scan.pc = "second_pass"
                   /\ Len(new) = Len(old) + 1
                   /\ SubSeq(new, 1, Len(old)) = old
                   /\ new[Len(new)].step = scan.trial.i_graph + n
                   /\ \A j \in 1 .. Len(old) : old[j].step < n]_vars

\* a trial of both passes over three graphs with a grace period of 1: the
\* first pass reported under the steps 1 and 2, the second pass under 5
C37_Witness ==
    /\ scan.trial.state = "complete"
    /\ Len(scan.trial.reports) = 3
    /\ scan.trial.reports[1].step = 1
    /\ scan.trial.reports[2].step = 2
    /\ scan.trial.reports[3].step = 5
    /\ Len(scan.args.graphs) = 3
    /\ scan.pruning_grace_period = 1

=============================================================================
